---- MODULE Spec2Model ----
(***************************************************************************)
(* Model of the price-update batching and consolidation code of            *)
(* plati_tool: logic/batcher.py (PriceUpdateBatcher), logic/processor.py   *)
(* (consolidate_price_updates, round_up_to_n_decimals) and the part of     *)
(* main.py (run_automation, process_payload_worker) that drives the        *)
(* batcher.                                                                *)
(*                                                                         *)
(* Prices are fixed-point integers with FracDigits decimal digits (a       *)
(* value x stands for x / 10^FracDigits).  An Optional value is a sequence *)
(* of length 0 (None) or 1 (the value).                                    *)
(***************************************************************************)
EXTENDS Integers, Sequences, FiniteSets, Bags, TLC

VARIABLES
    configured,   \* the batch_size argument handed to PriceUpdateBatcher.__init__
    batch_size,   \* PriceUpdateBatcher.batch_size after __init__
    batch,        \* PriceUpdateBatcher._batch, the pending list
    lock,         \* PriceUpdateBatcher._lock: the task holding it, NoTask when free
    waiters,      \* the lock's FIFO queue of suspended acquirers
    pc,           \* control point of every task (the workers and MainTask)
    inflight,     \* per task: the locals of its flush while its submission is awaited
    remaining,    \* payloads of the run not yet handed to a chunk
    chunk,        \* the workers of the chunk being gathered
    nAdded,       \* history: number of add calls so far
    subAt,        \* history: the values of nAdded at which an add started a submission
    clean,        \* history: no add ran while a flush was pending, no submission raised
    owed,         \* history: bag of the updates added and not yet in the snapshot
                  \*          of a flush whose submission returned
    ev,           \* history: what the last step did
    cin,          \* input batch of the consolidation harness
    cout,         \* result of the consolidation harness
    cout2,        \* result of consolidating that result once more
    fargs,        \* arguments of the pricing function under study
    fret,         \* what that function returned or raised
    run           \* the chunk loop of run_automation, or one retried operation

vars == <<configured, batch_size, batch, lock, waiters, pc, inflight, remaining,
          chunk, nAdded, subAt, clean, owed, ev, cin, cout, cout2, fargs, fret, run>>

batcherVars == <<configured, batch_size, batch, lock, waiters, pc, inflight,
                 remaining, chunk, nAdded, subAt, clean, owed, ev>>

harnessVars == <<cin, cout, cout2, fargs, fret, run>>

----------------------------------------------------------------------------
(* Bounds *)

\* decimal digits of the fixed-point prices
FracDigits == 1
\* longest input batch of the consolidation harness
MaxLen == 3
\* largest configured batch size tried
MaxBatch == 3
\* most payloads of one run
MaxPayloads == 5
\* workers per chunk (CONCURRENT_WORKERS, scaled down)
ChunkSize == 4

----------------------------------------------------------------------------
(* Optional values *)

None == <<>>
Some(x) == <<x>>
IsNone(o) == o = <<>>
Val(o) == o[1]

----------------------------------------------------------------------------
(* models/digiseller_models.py *)

ProductPriceVariantUpdate(vid, rate, type, target, rounding) ==
    [variant_id |-> vid, rate |-> rate, type |-> type,
     target_price |-> target, price_rounding |-> rounding]

ProductPriceUpdate(pid, price, variants, ign) ==
    [product_id |-> pid, price |-> price, variants |-> variants, is_ignore |-> ign]

----------------------------------------------------------------------------
(* logic/processor.py: round_up_to_n_decimals *)

RECURSIVE Pow10(_)
Pow10(n) == IF n <= 0 THEN 1 ELSE 10 * Pow10(n - 1)

\* math.ceil(a / m) for m > 0
CeilDiv(a, m) == -((-a) \div m)

Abs(x) == IF x < 0 THEN -x ELSE x

\* n < 0 raises ValueError
RoundRaises(n) == n < 0

\* math.ceil(number * 10^n) / 10^n on the fixed-point value
round_up_to_n_decimals(number, n) ==
    IF n >= FracDigits THEN number
    ELSE CeilDiv(number, Pow10(FracDigits - n)) * Pow10(FracDigits - n)

----------------------------------------------------------------------------
(* logic/processor.py: consolidate_price_updates *)

\* update.variants is None and update.price is not None
IsPureBaseUpdate(u) == IsNone(u.variants) /\ ~IsNone(u.price)

\* truth value of an Optional list: None and [] are both falsy
Truthy(vs) == ~IsNone(vs) /\ Val(vs) # <<>>

\* faulty variant of DropIgnored: the ignored updates are kept
DropIgnoredKeepsAll(updates) == updates

\* updates = [update for update in updates if not (update and update.is_ignore)]
DropIgnored(updates) == SelectSeq(updates, LAMBDA u : ~u.is_ignore)

HasId(vs, vid) == \E i \in 1..Len(vs) : vs[i].variant_id = vid

\* existing_variants_map[vid]: a dict comprehension keeps the last entry of a key
LastWithId(vs, vid) ==
    LET I == {i \in 1..Len(vs) : vs[i].variant_id = vid}
    IN  vs[CHOOSE i \in I : \A j \in I : j <= i]

\* list.remove(x) removes the first element equal to x; 0 when there is none
IndexOf(vs, x) ==
    LET I == {i \in 1..Len(vs) : vs[i] = x}
    IN  IF I = {} THEN 0 ELSE CHOOSE i \in I : \A j \in I : i <= j

RemoveAt(vs, i) == SubSeq(vs, 1, i - 1) \o SubSeq(vs, i + 1, Len(vs))

\* for new_variant in update.variants: remove the mapped entry, append the new one.
\* map0 is the list the map was built from (it is not refreshed inside the loop);
\* list.remove raises ValueError when the mapped entry is gone.
RECURSIVE MergeVariants(_, _, _)
MergeVariants(existing, new, map0) ==
    IF new = <<>> THEN [raised |-> FALSE, list |-> existing]
    ELSE LET nv == Head(new)
         IN  IF HasId(map0, nv.variant_id)
             THEN LET i == IndexOf(existing, LastWithId(map0, nv.variant_id))
                  IN  IF i = 0 THEN [raised |-> TRUE, list |-> existing]
                      ELSE MergeVariants(Append(RemoveAt(existing, i), nv),
                                         Tail(new), map0)
             ELSE MergeVariants(Append(existing, nv), Tail(new), map0)

\* state of the merge loop: consolidated (order of insertion and records),
\* has_authoritative_base_price, and whether an exception left the function
EmptyMerge == [order |-> <<>>, rec |-> <<>>, auth |-> {}, raised |-> FALSE]

\* faulty variant of MergeOne: no grouping, every update opens its own record
MergeOneNoGroup(st, u) ==
    [st EXCEPT !.order = Append(@, Len(@) + 1),
               !.rec = ((Len(st.order) + 1) :> u) @@ @]

\* faulty variant of MergedPrice: any update with a price overwrites it
MergedPriceLastWins(ex_price, u, authoritative) ==
    IF ~IsNone(u.price) THEN u.price ELSE ex_price

\* the price of an existing record after one more update of its product:
\* a pure base update always sets it, another update only while no pure
\* base update has been seen (authoritative)
MergedPrice(ex_price, u, authoritative) ==
    IF IsPureBaseUpdate(u) THEN u.price
    ELSE IF ~IsNone(u.price) /\ ~authoritative THEN u.price
    ELSE ex_price

\* one iteration of "for update in updates"
MergeOne(st, u) ==
    IF st.raised THEN st
    ELSE LET pid == u.product_id
             pure == IsPureBaseUpdate(u)
         IN  IF pid \notin DOMAIN st.rec
             THEN [st EXCEPT !.order = Append(@, pid),
                             !.rec = (pid :> u) @@ @,
                             !.auth = IF pure THEN @ \cup {pid} ELSE @]
             ELSE LET ex == st.rec[pid]
                      price1 == MergedPrice(ex.price, u, pid \in st.auth)
                      base == IF IsNone(ex.variants) THEN <<>> ELSE Val(ex.variants)
                      mv == IF Truthy(u.variants)
                            THEN MergeVariants(base, Val(u.variants), base)
                            ELSE [raised |-> FALSE, list |-> base]
                      variants1 == IF Truthy(u.variants) THEN Some(mv.list)
                                   ELSE ex.variants
                  IN  [st EXCEPT !.rec[pid] = [ex EXCEPT !.price = price1,
                                                          !.variants = variants1],
                                 !.auth = IF pure THEN @ \cup {pid} ELSE @,
                                 !.raised = mv.raised]

RECURSIVE MergeAll(_, _)
MergeAll(st, updates) ==
    IF updates = <<>> THEN st
    ELSE MergeAll(MergeOne(st, Head(updates)), Tail(updates))

\* faulty variant of RecomputedVariant: the absolute delta is rounded up
RecomputedVariantCeilAbs(v, price) ==
    LET final_delta == Val(v.target_price) - price
        rounding == IF IsNone(v.price_rounding) THEN 0 ELSE Val(v.price_rounding)
    IN  [v EXCEPT !.rate = round_up_to_n_decimals(Abs(final_delta), rounding),
                  !.type = IF final_delta >= 0 THEN "priceplus" ELSE "priceminus"]

\* faulty variant of RecomputedVariant: the delta is also written over the
\* target price the variant was derived from
RecomputedVariantLosesTarget(v, price) ==
    LET final_delta == Val(v.target_price) - price
        rounding == IF IsNone(v.price_rounding) THEN 0 ELSE Val(v.price_rounding)
    IN  [v EXCEPT !.rate = Abs(round_up_to_n_decimals(final_delta, rounding)),
                  !.type = IF final_delta >= 0 THEN "priceplus" ELSE "priceminus",
                  !.target_price = Some(final_delta)]

\* faulty variant of RecomputedVariant: the direction is always increase
RecomputedVariantAlwaysPlus(v, price) ==
    LET final_delta == Val(v.target_price) - price
        rounding == IF IsNone(v.price_rounding) THEN 0 ELSE Val(v.price_rounding)
    IN  [v EXCEPT !.rate = Abs(round_up_to_n_decimals(final_delta, rounding)),
                  !.type = "priceplus"]

\* the recomputed delta of one variant against the definitive price
RecomputedVariant(v, price) ==
    LET final_delta == Val(v.target_price) - price
        rounding == IF IsNone(v.price_rounding) THEN 0 ELSE Val(v.price_rounding)
    IN  [v EXCEPT !.rate = Abs(round_up_to_n_decimals(final_delta, rounding)),
                  !.type = IF final_delta >= 0 THEN "priceplus" ELSE "priceminus"]

\* for variant in final_update.variants: a variant without target_price is
\* skipped (left as it is); a negative rounding raises
RECURSIVE Recompute(_, _)
Recompute(vs, price) ==
    IF vs = <<>> THEN [raised |-> FALSE, list |-> <<>>]
    ELSE LET v == Head(vs)
             rounding == IF IsNone(v.price_rounding) THEN 0 ELSE Val(v.price_rounding)
         IN  IF ~IsNone(v.target_price) /\ RoundRaises(rounding)
             THEN [raised |-> TRUE, list |-> <<>>]
             ELSE LET rest == Recompute(Tail(vs), price)
                      v1 == IF IsNone(v.target_price) THEN v
                            ELSE RecomputedVariant(v, price)
                  IN  [raised |-> rest.raised, list |-> <<v1>> \o rest.list]

\* the body of "for pid, final_update in consolidated.items()" for one record
FinalUpdate(u) ==
    IF Truthy(u.variants) /\ ~IsNone(u.price)
    THEN LET r == Recompute(Val(u.variants), Val(u.price))
         IN  [raised |-> r.raised, update |-> [u EXCEPT !.variants = Some(r.list)]]
    ELSE [raised |-> FALSE, update |-> u]

\* [raised, out]: out is the returned list; raised when an exception left the call
consolidate_price_updates(updates) ==
    LET st == MergeAll(EmptyMerge, DropIgnored(updates))
        fin == [i \in 1..Len(st.order) |-> FinalUpdate(st.rec[st.order[i]])]
    IN  IF st.raised \/ \E i \in 1..Len(fin) : fin[i].raised
        THEN [raised |-> TRUE, out |-> <<>>]
        ELSE [raised |-> FALSE, out |-> [i \in 1..Len(fin) |-> fin[i].update]]

----------------------------------------------------------------------------
(* logic/processor.py: the updates prepare_price_update hands to the       *)
(* batcher                                                                 *)

\* return ProductPriceUpdate(product_id, price=price, is_ignore=_is_ignore)
PureUpdate(pid, price, ign) == ProductPriceUpdate(pid, Some(price), None, ign)

\* faulty variant of VariantUpdate: the absolute delta is rounded up
VariantUpdateCeilAbs(pid, base_price, vid, target, rounding, ign) ==
    ProductPriceUpdate(pid, Some(base_price),
        Some(<<RecomputedVariantCeilAbs(
                 ProductPriceVariantUpdate(vid, 0, "None", Some(target),
                                           Some(rounding)), base_price)>>),
        ign)

\* return ProductPriceUpdate(product_id, price=base_price, variants=[variant],
\* is_ignore=_is_ignore), the variant's rate computed against base_price
VariantUpdate(pid, base_price, vid, target, rounding, ign) ==
    ProductPriceUpdate(pid, Some(base_price),
        Some(<<RecomputedVariant(
                 ProductPriceVariantUpdate(vid, 0, "None", Some(target),
                                           Some(rounding)), base_price)>>),
        ign)

\* truth value of an Optional number: None and 0 are both falsy
TruthyNum(o) == ~IsNone(o) /\ Val(o) # 0

\* faulty variant of IsIgnore: the compare mode is not looked at
IsIgnoreAnyMode(current_price, target_price, compare2) ==
    /\ TruthyNum(current_price) /\ TruthyNum(target_price)
    /\ Val(current_price) < Val(target_price)

\* _is_ignore: the own price is below the competitor's target in compare2 mode
IsIgnore(current_price, target_price, compare2) ==
    /\ TruthyNum(current_price) /\ TruthyNum(target_price)
    /\ Val(current_price) < Val(target_price)
    /\ compare2

\* price_count = result.get('price_count', 1); None and 0 become 1
PriceCount(price_count) == IF TruthyNum(price_count) THEN Val(price_count) ELSE 1

\* target_price_per_unit = price / price_count (the quotient is taken on the
\* fixed-point value; the sample prices are multiples of the sample counts)
TargetPerUnit(price, price_count) == price \div PriceCount(price_count)

Raised == [raised |-> TRUE, update |-> None]

\* prepare_price_update(price, payload) with the product description the API
\* returned (a.result: None or [base_price, price_count]) and the outcome of
\* the variant lookup (a.found_variant_api_id); raised stands for ValueError
prepare_price_update(a) ==
    IF IsNone(a.product_id) \/ IsNone(a.price_rounding) THEN Raised
    ELSE IF IsNone(a.result) THEN Raised
    ELSE IF IsNone(Val(a.result).base_price) THEN Raised
    ELSE LET base_price == Val(Val(a.result).base_price)
             rounding == Val(a.price_rounding)
         IN  IF ~IsNone(a.product_variant_id)
             THEN IF IsNone(a.found_variant_api_id) THEN Raised
                  ELSE IF RoundRaises(rounding) THEN Raised
                  ELSE [raised |-> FALSE,
                        update |-> Some(VariantUpdate(
                            Val(a.product_id), base_price,
                            Val(a.found_variant_api_id),
                            TargetPerUnit(a.price, Val(a.result).price_count),
                            rounding,
                            IsIgnore(a.current_price, a.target_price,
                                     a.compare2)))]
             ELSE [raised |-> FALSE,
                   update |-> Some(PureUpdate(
                       Val(a.product_id), a.price,
                       IsIgnore(Some(base_price), a.target_price, a.compare2)))]

\* the product_update values a worker may obtain from process_single_payload
RawUpdates ==
    { PureUpdate(1, 10, FALSE),
      VariantUpdate(1, 20, 1, 25, 0, FALSE),
      PureUpdate(2, 30, FALSE),
      PureUpdate(2, 40, TRUE) }

----------------------------------------------------------------------------
(* logic/batcher.py: PriceUpdateBatcher, driven by main.py                 *)

\* asyncio.Lock(): nobody holds it
NoTask == 0

Workers == 1..ChunkSize

\* the task that runs run_automation
MainTask == ChunkSize + 1

Tasks == Workers \cup {MainTask}

\* if batch_size == 1: batch_size = 20
BatchSizeFor1 == 20

\* self.batch_size as __init__ leaves it
InitBatchSize(n) == IF n = 1 THEN BatchSizeFor1 ELSE n

\* if batch_size < 1: raise ValueError
InitRaises(n) == InitBatchSize(n) < 1

NoFlush == [snapshot |-> <<>>, to_send |-> <<>>]

RECURSIVE SeqToBag(_)
SeqToBag(s) == IF s = <<>> THEN EmptyBag ELSE SetToBag({Head(s)}) (+) SeqToBag(Tail(s))

\* what the last step did: the task, the pending list at the entry of its
\* flush (or the snapshot of the flush that finished), the list handed to
\* bulk_update_prices, the list re-inserted and the pending list it was
\* re-inserted into, whether consolidation ran and a submission started, and
\* the accesses to _batch with whether the task held the lock at each
Event(kind, task, entry, sent, requeued, before, ran, acc) ==
    [kind |-> kind, task |-> task, entry |-> entry, sent |-> sent,
     requeued |-> requeued, before |-> before, ran |-> ran, acc |-> acc]

NoEvent == Event("none", NoTask, <<>>, <<>>, <<>>, <<>>, {}, {})

NotRun == [done |-> FALSE, raised |-> FALSE, out |-> <<>>]

\* no call of a pricing function has been set up
NoCall == [fn |-> "none"]

\* no loop and no retried operation is being followed
NoRun == [of |-> "none"]

Init ==
    /\ configured \in 0..MaxBatch
    /\ batch_size = InitBatchSize(configured)
    /\ batch = <<>>
    /\ lock = NoTask
    /\ waiters = <<>>
    /\ remaining \in 0..MaxPayloads
    \* "if not payloads_to_process: return", or __init__ raised: no scope
    /\ pc = [t \in Tasks |->
               IF t = MainTask
               THEN IF remaining = 0 \/ InitRaises(configured) THEN "noscope" ELSE "loop"
               ELSE "idle"]
    /\ inflight = [t \in Tasks |-> NoFlush]
    /\ chunk = {}
    /\ nAdded = 0
    /\ subAt = {}
    /\ clean = TRUE
    /\ owed = EmptyBag
    /\ ev = NoEvent
    /\ cin = <<>>
    /\ cout = NotRun
    /\ cout2 = NotRun
    /\ fargs = NoCall
    /\ fret = NoCall
    /\ run = NoRun

\* create_chunks: the size of the next chunk
NextChunkSize == IF remaining < ChunkSize THEN remaining ELSE ChunkSize

\* one pass of the for loop up to asyncio.gather: the chunk's workers start
StartChunk ==
    /\ pc[MainTask] = "loop"
    /\ remaining > 0
    /\ chunk' = 1..NextChunkSize
    /\ remaining' = remaining - NextChunkSize
    /\ pc' = [t \in Tasks |->
                IF t = MainTask THEN "gather"
                ELSE IF t <= NextChunkSize THEN "run" ELSE pc[t]]
    /\ ev' = NoEvent
    /\ UNCHANGED <<configured, batch_size, batch, lock, waiters, inflight,
                   nAdded, subAt, clean, owed, cin, cout, cout2, fargs, fret, run>>

\* fetch_data_for_payloads_chunk raises: "continue" skips the chunk
SkipChunk ==
    /\ pc[MainTask] = "loop"
    /\ remaining > 0
    /\ remaining' = remaining - NextChunkSize
    /\ ev' = NoEvent
    /\ UNCHANGED <<configured, batch_size, batch, lock, waiters, pc, inflight,
                   chunk, nAdded, subAt, clean, owed, cin, cout, cout2, fargs, fret, run>>

\* process_payload_worker ends without a product_update (none was prepared,
\* or the pipeline failed after its retries)
WorkerNoUpdate(t) ==
    /\ t \in chunk
    /\ pc[t] = "run"
    /\ pc' = [pc EXCEPT ![t] = "done"]
    /\ ev' = NoEvent
    /\ UNCHANGED <<configured, batch_size, batch, lock, waiters, inflight,
                   remaining, chunk, nAdded, subAt, clean, owed, cin, cout, cout2, fargs, fret, run>>

\* asyncio.gather returned: every worker of the chunk has finished
Gathered ==
    /\ pc[MainTask] = "gather"
    /\ \A t \in chunk : pc[t] = "done"
    /\ pc' = [t \in Tasks |-> IF t = MainTask THEN "loop" ELSE "idle"]
    /\ chunk' = {}
    /\ ev' = NoEvent
    /\ UNCHANGED <<configured, batch_size, batch, lock, waiters, inflight,
                   remaining, nAdded, subAt, clean, owed, cin, cout, cout2, fargs, fret, run>>

\* Lock.release(): the lock goes to the first waiter, if any
ReleasedTo == IF waiters = <<>> THEN NoTask ELSE Head(waiters)

WaitersAfterRelease == IF waiters = <<>> THEN <<>> ELSE Tail(waiters)

\* Lock.acquire() returns at once: unlocked and nobody queued
CanAcquire == lock = NoTask /\ waiters = <<>>

\* faulty variant of AcquiredBy: the body of flush runs without the lock
AcquiredByNobody(t) == NoTask

\* "async with self._lock": the holder while the body of t's flush runs
AcquiredBy(t) == t

\* faulty variant of PendingIsEmpty: "if not self._batch: return" is missing
PendingIsEmptyNever(b) == FALSE

\* if not self._batch
PendingIsEmpty(b) == b = <<>>

\* self._batch.extend(batch_to_send)
Requeue(pending, to_send) == pending \o to_send

\* The body of flush from the acquired lock to its first suspension, the
\* await of bulk_update_prices, for pending list b; acc0 are the accesses the
\* caller made before.  With nothing pending it returns; when consolidation
\* raises, batch_to_send is still the snapshot and is re-inserted.
FlushBody(t, b, acc0) ==
    LET held == AcquiredBy(t) = t
        r == consolidate_price_updates(b)
    IN  IF PendingIsEmpty(b)
        THEN /\ batch' = b
             /\ lock' = ReleasedTo
             /\ waiters' = WaitersAfterRelease
             /\ pc' = [pc EXCEPT ![t] = "done"]
             /\ inflight' = inflight
             /\ ev' = Event("flush", t, b, <<>>, <<>>, <<>>, {},
                            acc0 \cup {<<"empty_test", held>>})
        ELSE IF r.raised
        THEN /\ batch' = Requeue(<<>>, b)
             /\ lock' = ReleasedTo
             /\ waiters' = WaitersAfterRelease
             /\ pc' = [pc EXCEPT ![t] = "done"]
             /\ inflight' = inflight
             /\ ev' = Event("flush", t, b, <<>>, b, <<>>, {"consolidate"},
                            acc0 \cup {<<"empty_test", held>>, <<"snapshot", held>>,
                                       <<"clear", held>>, <<"requeue", held>>})
        ELSE /\ batch' = <<>>
             /\ lock' = AcquiredBy(t)
             /\ waiters' = waiters
             /\ pc' = [pc EXCEPT ![t] = "submitting"]
             /\ inflight' = [inflight EXCEPT ![t] = [snapshot |-> b, to_send |-> r.out]]
             /\ ev' = Event("flush", t, b, r.out, <<>>, <<>>, {"consolidate", "submit"},
                            acc0 \cup {<<"empty_test", held>>, <<"snapshot", held>>,
                                       <<"clear", held>>})

\* flush() called by t with pending list b: the body at once when the lock is
\* free, else t queues on the lock
Flush(t, b, acc0) ==
    IF CanAcquire
    THEN FlushBody(t, b, acc0)
    ELSE /\ batch' = b
         /\ lock' = lock
         /\ waiters' = Append(waiters, t)
         /\ pc' = [pc EXCEPT ![t] = "waiting"]
         /\ inflight' = inflight
         /\ ev' = Event("wait", t, b, <<>>, <<>>, <<>>, {}, acc0)

FlushPending == \E t \in Tasks : pc[t] \in {"waiting", "submitting"}

\* await batcher.add(item): append, test the size, flush when it is reached
Add(t, item) ==
    /\ t \in chunk
    /\ pc[t] = "run"
    /\ nAdded' = nAdded + 1
    /\ owed' = owed (+) SetToBag({item})
    /\ clean' = (clean /\ ~FlushPending)
    /\ LET b == Append(batch, item)
           acc0 == {<<"append", lock = t>>, <<"size", lock = t>>}
       IN  IF Len(b) >= batch_size
           THEN /\ Flush(t, b, acc0)
                /\ subAt' = IF CanAcquire /\ ~PendingIsEmpty(b)
                               /\ ~consolidate_price_updates(b).raised
                            THEN subAt \cup {nAdded + 1} ELSE subAt
           ELSE /\ batch' = b
                /\ pc' = [pc EXCEPT ![t] = "done"]
                /\ ev' = Event("add", t, <<>>, <<>>, <<>>, <<>>, {}, acc0)
                /\ UNCHANGED <<lock, waiters, inflight, subAt>>
    /\ UNCHANGED <<configured, batch_size, remaining, chunk, cin, cout, cout2, fargs, fret, run>>

\* a queued flush gets the lock and runs its body
Resume(t) ==
    /\ pc[t] = "waiting"
    /\ lock = t
    /\ FlushBody(t, batch, {})
    /\ UNCHANGED <<configured, batch_size, remaining, chunk, nAdded, subAt,
                   clean, owed, cin, cout, cout2, fargs, fret, run>>

\* bulk_update_prices returns (the response is only logged): the snapshot is
\* dropped and the lock released
SubmitReturns(t) ==
    /\ pc[t] = "submitting"
    /\ lock' = ReleasedTo
    /\ waiters' = WaitersAfterRelease
    /\ pc' = [pc EXCEPT ![t] = "done"]
    /\ inflight' = [inflight EXCEPT ![t] = NoFlush]
    /\ owed' = owed (-) SeqToBag(inflight[t].snapshot)
    /\ ev' = Event("returned", t, inflight[t].snapshot, inflight[t].to_send,
                   <<>>, <<>>, {}, {})
    /\ UNCHANGED <<configured, batch_size, batch, remaining, chunk, nAdded,
                   subAt, clean, cin, cout, cout2, fargs, fret, run>>

\* bulk_update_prices raises: except Exception re-inserts batch_to_send, which
\* by then names the consolidated list
SubmitRaises(t) ==
    /\ pc[t] = "submitting"
    /\ batch' = Requeue(batch, inflight[t].to_send)
    /\ lock' = ReleasedTo
    /\ waiters' = WaitersAfterRelease
    /\ pc' = [pc EXCEPT ![t] = "done"]
    /\ inflight' = [inflight EXCEPT ![t] = NoFlush]
    /\ clean' = FALSE
    /\ ev' = Event("raised", t, inflight[t].snapshot, inflight[t].to_send,
                   inflight[t].to_send, batch, {}, {<<"requeue", lock = t>>})
    /\ UNCHANGED <<configured, batch_size, remaining, chunk, nAdded, subAt,
                   owed, cin, cout, cout2, fargs, fret, run>>

\* __aexit__ after the last chunk: the closing flush
ExitScope ==
    /\ pc[MainTask] = "loop"
    /\ remaining = 0
    /\ Flush(MainTask, batch, {})
    /\ UNCHANGED <<configured, batch_size, remaining, chunk, nAdded, subAt,
                   clean, owed, cin, cout, cout2, fargs, fret, run>>

\* an exception leaves the body of the scope (get_valid_token or
\* batch_update_logs raised): __aexit__ runs the closing flush all the same
ExitByException ==
    /\ pc[MainTask] = "loop"
    /\ remaining > 0
    /\ remaining' = 0
    /\ Flush(MainTask, batch, {})
    /\ UNCHANGED <<configured, batch_size, chunk, nAdded, subAt, clean, owed,
                   cin, cout, cout2, fargs, fret, run>>

Next ==
    \/ StartChunk
    \/ SkipChunk
    \/ Gathered
    \/ ExitScope
    \/ ExitByException
    \/ \E t \in Workers : WorkerNoUpdate(t)
    \/ \E t \in Workers : \E item \in RawUpdates : Add(t, item)
    \/ \E t \in Tasks : Resume(t)
    \/ \E t \in Tasks : SubmitReturns(t)
    \/ \E t \in Tasks : SubmitRaises(t)

Spec == Init /\ [][Next]_vars

----------------------------------------------------------------------------
(* Inputs of the consolidation harness: values of the ProductPriceUpdate   *)
(* type, among them the shapes prepare_price_update builds (a pure base    *)
(* update, a base price with one variant) and the other shapes the type    *)
(* admits (no price, an empty or a repeating variant list, a variant       *)
(* without target price, a negative rounding).                             *)

SampleVariants ==
    [a |-> ProductPriceVariantUpdate(1, 7, "priceplus", Some(25), Some(0)),
     b |-> ProductPriceVariantUpdate(1, 7, "priceplus", Some(4), Some(1)),
     c |-> ProductPriceVariantUpdate(2, 7, "priceminus", Some(12), Some(0)),
     d |-> ProductPriceVariantUpdate(2, 7, "priceplus", None, Some(0)),
     e |-> ProductPriceVariantUpdate(2, 7, "priceplus", Some(12), Some(-1))]

SampleUpdates ==
    LET v == SampleVariants
    IN  { ProductPriceUpdate(1, Some(10), None, FALSE),
          ProductPriceUpdate(1, Some(20), None, FALSE),
          ProductPriceUpdate(2, Some(10), None, FALSE),
          ProductPriceUpdate(1, None, None, FALSE),
          ProductPriceUpdate(1, Some(10), Some(<<v.a>>), FALSE),
          ProductPriceUpdate(1, Some(30), Some(<<v.b>>), FALSE),
          ProductPriceUpdate(1, None, Some(<<v.c>>), FALSE),
          ProductPriceUpdate(1, Some(10), Some(<<v.a, v.b>>), FALSE),
          ProductPriceUpdate(2, Some(20), Some(<<v.c>>), FALSE),
          ProductPriceUpdate(1, Some(20), Some(<<v.d>>), FALSE),
          ProductPriceUpdate(2, Some(20), Some(<<v.e>>), FALSE),
          ProductPriceUpdate(1, Some(10), Some(<<>>), FALSE),
          ProductPriceUpdate(1, Some(40), None, TRUE),
          ProductPriceUpdate(2, Some(40), Some(<<v.a>>), TRUE) }

SeqsUpTo(S, n) == UNION {[1..k -> S] : k \in 0..n}

\* the batcher does not run in the harness
IdleBatcher ==
    /\ configured = 0 /\ batch_size = 0 /\ batch = <<>>
    /\ lock = NoTask /\ waiters = <<>> /\ pc = <<>> /\ inflight = <<>>
    /\ remaining = 0 /\ chunk = {} /\ nAdded = 0 /\ subAt = {}
    /\ clean = TRUE /\ owed = EmptyBag /\ ev = NoEvent

InitCons ==
    /\ cin \in SeqsUpTo(SampleUpdates, MaxLen)
    /\ cout = NotRun
    /\ cout2 = NotRun
    /\ fargs = NoCall
    /\ fret = NoCall
    /\ run = NoRun
    /\ IdleBatcher

\* a call consolidate_price_updates(cin)
Consolidate ==
    /\ ~cout.done
    /\ cout' = [done |-> TRUE,
                raised |-> consolidate_price_updates(cin).raised,
                out |-> consolidate_price_updates(cin).out]
    /\ UNCHANGED <<cin, cout2, fargs, fret, run>>
    /\ UNCHANGED batcherVars

Returned == cout.done /\ ~cout.raised

\* the returned list is consolidated once more
ConsolidateAgain ==
    /\ Returned
    /\ ~cout2.done
    /\ cout2' = [done |-> TRUE,
                 raised |-> consolidate_price_updates(cout.out).raised,
                 out |-> consolidate_price_updates(cout.out).out]
    /\ UNCHANGED <<cin, cout, fargs, fret, run>>
    /\ UNCHANGED batcherVars

NextCons == Consolidate \/ ConsolidateAgain

SpecCons == InitCons /\ [][NextCons]_vars

----------------------------------------------------------------------------
(* Claims about consolidate_price_updates *)

RECURSIVE FirstSeen(_, _)
\* the distinct elements of a sequence in the order of their first occurrence
FirstSeen(s, seen) ==
    IF s = <<>> THEN <<>>
    ELSE IF Head(s) \in seen THEN FirstSeen(Tail(s), seen)
         ELSE <<Head(s)>> \o FirstSeen(Tail(s), seen \cup {Head(s)})

ProductIds(us) == [i \in 1..Len(us) |-> us[i].product_id]

NotIgnored(us) == SelectSeq(us, LAMBDA u : ~u.is_ignore)

\* C8: the output of consolidate_price_updates holds at most one record per
\* product id, and its product ids are those of the non-ignored inputs in the
\* order in which they were first seen.
C8_OnePerProductFirstSeen ==
    Returned =>
        /\ \A i, j \in 1..Len(cout.out) :
              cout.out[i].product_id = cout.out[j].product_id => i = j
        /\ ProductIds(cout.out) = FirstSeen(ProductIds(NotIgnored(cin)), {})

\* C8 witness: a returned call whose input holds two non-ignored updates of one
\* product after an update of another product.
C8_Witness ==
    /\ Returned
    /\ Len(cout.out) = 2
    /\ \E i, j, k \in 1..Len(cin) :
          /\ i < j /\ j < k
          /\ ~cin[i].is_ignore /\ ~cin[j].is_ignore /\ ~cin[k].is_ignore
          /\ cin[i].product_id = cin[k].product_id
          /\ cin[i].product_id # cin[j].product_id

VariantsOf(u) == IF IsNone(u.variants) THEN <<>> ELSE Val(u.variants)

\* the inputs that carry variant id vid for product pid, ignored ones left out
Carriers(us, pid, vid) ==
    {i \in 1..Len(us) : /\ ~us[i].is_ignore
                        /\ us[i].product_id = pid
                        /\ HasId(VariantsOf(us[i]), vid)}

\* the entry of vid in the latest input record that carries it
LatestEntry(us, pid, vid) ==
    LET I == Carriers(us, pid, vid)
        k == CHOOSE i \in I : \A j \in I : j <= i
    IN  LastWithId(VariantsOf(us[k]), vid)

SameEntry(v, w) ==
    /\ v.variant_id = w.variant_id
    /\ v.target_price = w.target_price
    /\ v.price_rounding = w.price_rounding

\* C9: within every consolidated update the variant ids are pairwise distinct,
\* and the entry that survives for a variant id is the one of the latest input
\* record that carried the id.
C9_VariantIdsUniqueLatestWins ==
    Returned =>
        \A r \in 1..Len(cout.out) :
            LET u == cout.out[r]
                vs == VariantsOf(u)
            IN  /\ \A i, j \in 1..Len(vs) :
                      vs[i].variant_id = vs[j].variant_id => i = j
                /\ \A i \in 1..Len(vs) :
                      /\ Carriers(cin, u.product_id, vs[i].variant_id) # {}
                      /\ SameEntry(vs[i], LatestEntry(cin, u.product_id,
                                                      vs[i].variant_id))

\* C10: an ignored update influences no output record: the result is the one
\* of the batch without its ignored updates, no output record is ignored, and
\* every output record belongs to a product with a non-ignored update.
C10_IgnoredDropped ==
    cout.done =>
        /\ cout.raised = consolidate_price_updates(NotIgnored(cin)).raised
        /\ cout.out = consolidate_price_updates(NotIgnored(cin)).out
        /\ \A r \in 1..Len(cout.out) :
              /\ ~cout.out[r].is_ignore
              /\ \E i \in 1..Len(cin) :
                    ~cin[i].is_ignore /\ cin[i].product_id = cout.out[r].product_id

\* C10 witness: a returned call on a batch with an ignored update of a product
\* that has no other update, next to a product that has an ignored and a
\* non-ignored update.
C10_Witness ==
    /\ Returned
    /\ Len(cout.out) = 1
    /\ \E i, j, k \in 1..Len(cin) :
          /\ cin[i].is_ignore /\ cin[j].is_ignore /\ ~cin[k].is_ignore
          /\ cin[i].product_id # cin[k].product_id
          /\ cin[j].product_id = cin[k].product_id
          /\ \A n \in 1..Len(cin) :
                cin[n].product_id = cin[i].product_id => cin[n].is_ignore

----------------------------------------------------------------------------
(* Claims about PriceUpdateBatcher *)

\* the run is between two steps of sequential add calls: the scope is open and
\* no flush is queued or awaiting its submission
Quiet == pc[MainTask] \in {"loop", "gather"} /\ ~FlushPending

\* C1: for every configured threshold T >= 1, with sequential add calls whose
\* submissions all succeed, a submission has been started exactly at the
\* additions T, 2T, ... and (number of additions) mod T updates are pending.
C1_FlushEveryThreshold ==
    (configured >= 1 /\ clean /\ Quiet) =>
        /\ subAt = {k \in 1..nAdded : k % configured = 0}
        /\ Len(batch) = nAdded % configured

RECURSIVE InFlightBag(_)
\* the snapshots of the flushes of tasks 1..n that await their submission
InFlightBag(n) ==
    IF n = 0 THEN EmptyBag ELSE SeqToBag(inflight[n].snapshot) (+) InFlightBag(n - 1)

\* C2: when the submission of a flush raises, every update of its snapshot is
\* back in pending, and no raw update is lost or duplicated: the updates added
\* and not yet part of a returned submission are exactly those pending or in
\* the snapshot of a flush in flight.
C2_FailedFlushKeepsSnapshot ==
    /\ ev.kind = "raised" => SeqToBag(ev.entry) \sqsubseteq SeqToBag(batch)
    /\ owed = SeqToBag(batch) (+) InFlightBag(MainTask)

\* C3: on a failed flush the re-inserted updates stand at the front of
\* pending, before every update added while the flush was in flight.
C3_RequeuedAtFront ==
    ev.requeued # <<>> => batch = ev.requeued \o ev.before

\* C4: at most one flush is between taking its snapshot and the end of its
\* submission, and it is the holder of the lock.
C4_FlushesSerialized ==
    /\ Cardinality({t \in Tasks : pc[t] = "submitting"}) <= 1
    /\ \A t \in Tasks : pc[t] = "submitting" => lock = t

\* C4 witness: a second flush is queued on the lock while a submission is
\* in flight.
C4_Witness ==
    \E t, s \in Tasks : pc[t] = "submitting" /\ pc[s] = "waiting"

FlushAccesses == {"empty_test", "snapshot", "clear", "requeue"}

\* C5 as stated: every read and write of the pending list, those of add
\* included, is made by a task that holds the flush lock.
C5_EveryAccessUnderLock ==
    \A a \in ev.acc : a[2]

\* C5 amended: the accesses of flush (emptiness test, snapshot, clear,
\* re-insert) are made by the holder of the flush lock; the append and the
\* size test of add are made without it.
C5_FlushAccessesUnderLock ==
    \A a \in ev.acc : a[2] <=> a[1] \in FlushAccesses

\* C5 witness: a failed flush re-inserts under the lock into a pending list
\* that an add extended while the flush was in flight.
C5_Witness ==
    /\ ev.kind = "raised"
    /\ <<"requeue", TRUE>> \in ev.acc
    /\ ev.before # <<>>

\* C6: leaving the scope ends with the closing flush, and when its submission
\* returns, pending is empty and every update added during the run has been
\* part of a returned submission.
C6_ClosingFlush ==
    pc[MainTask] = "done" =>
        /\ ev.task = MainTask
        /\ ev.kind \in {"flush", "returned", "raised"}
        /\ ev.kind = "returned" => (batch = <<>> /\ owed = EmptyBag)

\* C7: a flush that finds pending empty returns without consolidation and
\* without a call of the pricing API, and pending stays empty.
C7_EmptyFlushReturns ==
    (ev.kind = "flush" /\ ev.entry = <<>>) =>
        /\ ev.ran = {}
        /\ batch = <<>>
        /\ pc[ev.task] = "done"
        /\ inflight[ev.task] = NoFlush

\* C7 witness: the closing flush finds nothing pending after a run in which
\* updates were added.
C7_Witness ==
    /\ ev.kind = "flush" /\ ev.entry = <<>>
    /\ ev.task = MainTask
    /\ nAdded > 0

----------------------------------------------------------------------------
(* consolidate_price_updates: the base price and the variant deltas *)

\* positions of the non-ignored updates of product pid that satisfy P
Positions(updates, pid, P(_)) ==
    {i \in 1..Len(updates) : /\ ~updates[i].is_ignore
                               /\ updates[i].product_id = pid
                               /\ P(updates[i])}

Last(I) == CHOOSE i \in I : \A j \in I : j <= i

HasPrice(u) == ~IsNone(u.price)

\* C11: the base price of a consolidated record is the price of the last pure
\* base-price update of its product when there is one, whatever came before or
\* after it; otherwise it is the price of the last update of the product that
\* carries a price (and no price when none does).
C11_BasePricePrecedence ==
    Returned =>
        \A r \in 1..Len(cout.out) :
            LET u == cout.out[r]
                pures == Positions(cin, u.product_id, IsPureBaseUpdate)
                priced == Positions(cin, u.product_id, HasPrice)
            IN  u.price = IF pures # {} THEN cin[Last(pures)].price
                          ELSE IF priced # {} THEN cin[Last(priced)].price
                          ELSE None

\* a pure base update lies between two priced variant updates of its product
\* with other prices, and its price is the one in the result
C11_Witness ==
    /\ Returned
    /\ Len(cin) = 3
    /\ \A i \in 1..3 : ~cin[i].is_ignore /\ cin[i].product_id = 1 /\ HasPrice(cin[i])
    /\ ~IsPureBaseUpdate(cin[1]) /\ IsPureBaseUpdate(cin[2]) /\ ~IsPureBaseUpdate(cin[3])
    /\ cin[1].price # cin[2].price /\ cin[3].price # cin[2].price
    /\ Len(cout.out) = 1 /\ cout.out[1].price = cin[2].price

\* the step of the grid of numbers with n decimals
Unit(n) == IF n >= FracDigits THEN 1 ELSE Pow10(FracDigits - n)

\* r is the least number with n decimals that is not below x
IsCeilOf(x, r, n) == r % Unit(n) = 0 /\ x <= r /\ r < x + Unit(n)

\* the output variants that were recomputed: they carry a target price and
\* their record carries a price
Recomputed ==
    {<<u, v>> \in UNION {{<<cout.out[r], Val(cout.out[r].variants)[i]>> :
                             i \in 1..Len(Val(cout.out[r].variants))} :
                          r \in {q \in 1..Len(cout.out) :
                                   ~IsNone(cout.out[q].variants)}} :
        ~IsNone(u.price) /\ ~IsNone(v.target_price)}

Delta(u, v) == Val(v.target_price) - Val(u.price)

DirectionOf(d) == IF d >= 0 THEN "priceplus" ELSE "priceminus"

\* C12 as stated: the magnitude of every surviving variant is the round-up of
\* the absolute value of target - base price to the variant's precision, and
\* the direction is increase exactly when the delta is >= 0.
C12_MagnitudeCeilOfAbsDelta ==
    Returned =>
        \A p \in Recomputed :
            LET d == Delta(p[1], p[2])
            IN  /\ IsCeilOf(Abs(d), p[2].rate, Val(p[2].price_rounding))
                /\ p[2].type = DirectionOf(d)

\* C12 (amended): the magnitude is the absolute value of the round-up of the
\* signed delta target - base price (for a negative delta off the grid the
\* magnitude is rounded toward zero), and the direction is increase exactly
\* when the delta is >= 0.
C12_MagnitudeAbsOfCeilDelta ==
    Returned =>
        \A p \in Recomputed :
            LET d == Delta(p[1], p[2])
            IN  /\ p[2].rate >= 0
                /\ \E s \in {p[2].rate, -p[2].rate} :
                       IsCeilOf(d, s, Val(p[2].price_rounding))
                /\ p[2].type = DirectionOf(d)

\* a recomputed variant with a negative delta off its grid and one with a
\* positive delta off its grid
C12_Witness ==
    /\ Returned
    /\ \E p \in Recomputed :
          /\ Delta(p[1], p[2]) < 0
          /\ Delta(p[1], p[2]) % Unit(Val(p[2].price_rounding)) # 0
          /\ p[2].type = "priceminus"
    /\ \E p \in Recomputed :
          /\ Delta(p[1], p[2]) > 0
          /\ Delta(p[1], p[2]) % Unit(Val(p[2].price_rounding)) # 0
          /\ p[2].type = "priceplus"

\* C13: consolidation is idempotent: consolidating a returned list once more
\* returns normally and gives the same list (same records, prices, variants,
\* magnitudes and directions, in the same order).
C13_Idempotent ==
    cout2.done => ~cout2.raised /\ cout2.out = cout.out

\* the second pass ran on a record that the first pass merged from several
\* updates and whose variant deltas it recomputed
C13_Witness ==
    /\ cout2.done
    /\ Len(cin) = 3 /\ Len(cout.out) = 1
    /\ \A i \in 1..3 : ~cin[i].is_ignore
    /\ \E p \in Recomputed : p[2].rate # 7 /\ p[2].rate # 0
    /\ Len(Val(cout.out[1].variants)) >= 2

----------------------------------------------------------------------------
(* prepare_price_update on its own *)

SamplePrices == {12, 24, 30}

SampleResults ==
    {None} \cup
    { Some([base_price |-> b, price_count |-> c]) :
        b \in {None, Some(5), Some(10), Some(14)},
        c \in {None, Some(0), Some(1), Some(2), Some(3)} }

PrepareArgs ==
    [fn : {"prepare_price_update"},
     price : SamplePrices,
     product_id : {None, Some(1)},
     price_rounding : {None, Some(-1), Some(0), Some(1)},
     product_variant_id : {None, Some(1)},
     found_variant_api_id : {None, Some(3)},
     result : SampleResults,
     current_price : {None, Some(10), Some(14)},
     target_price : {None, Some(12)},
     compare2 : BOOLEAN]

InitPrep ==
    /\ fargs \in PrepareArgs
    /\ fret = NoCall
    /\ cin = <<>> /\ cout = NotRun /\ cout2 = NotRun /\ run = NoRun
    /\ IdleBatcher

\* a call prepare_price_update(price, payload)
Prepare ==
    /\ fret = NoCall
    /\ fret' = [fn |-> "prepare_price_update",
                raised |-> prepare_price_update(fargs).raised,
                update |-> prepare_price_update(fargs).update]
    /\ UNCHANGED <<fargs, cin, cout, cout2, run>>
    /\ UNCHANGED batcherVars

\* the update goes to the batcher (process_payload_worker: batcher.add) and
\* a flush takes it in its snapshot together with what was pending: cin is
\* the snapshot, cout the list consolidate_price_updates gives the flush to
\* submit
FlushPrepared ==
    /\ fret # NoCall /\ ~fret.raised /\ ~cout.done
    /\ \E pending \in SeqsUpTo(RawUpdates, 1) :
         /\ cin' = pending \o <<Val(fret.update)>>
         /\ cout' = [done |-> TRUE,
                     raised |-> consolidate_price_updates(cin').raised,
                     out |-> consolidate_price_updates(cin').out]
    /\ UNCHANGED <<fargs, fret, cout2, run>>
    /\ UNCHANGED batcherVars

NextPrep == Prepare \/ FlushPrepared

SpecPrep == InitPrep /\ [][NextPrep]_vars

\* the call returned an update for a variant row
PreparedVariant ==
    /\ fret # NoCall /\ ~fret.raised
    /\ ~IsNone(fargs.product_variant_id)

\* the variant row's update: the base price, one variant with the looked-up
\* id, the per-unit target (target * unit_count = price) and the precision
PreparedShape(u, v) ==
    /\ u.product_id = Val(fargs.product_id)
    /\ u.price = Val(fargs.result).base_price
    /\ Len(Val(u.variants)) = 1
    /\ v.variant_id = Val(fargs.found_variant_api_id)
    /\ ~IsNone(v.target_price)
    /\ Val(v.target_price) * PriceCount(Val(fargs.result).price_count) = fargs.price
    /\ v.price_rounding = fargs.price_rounding
    /\ v.type = DirectionOf(Val(v.target_price) - Val(u.price))

\* C15 as stated: for a variant row, delta = target_price / unit_count -
\* base_price, direction increase iff delta >= 0, magnitude = round-up of the
\* absolute delta to the precision; the per-unit target and the precision are
\* stored.
C15_PreparedCeilOfAbsDelta ==
    PreparedVariant =>
        LET u == Val(fret.update)
            v == Val(u.variants)[1]
        IN  /\ PreparedShape(u, v)
            /\ IsCeilOf(Abs(Val(v.target_price) - Val(u.price)), v.rate,
                        Val(v.price_rounding))

\* C15 (amended): as above, but the magnitude is the absolute value of the
\* round-up of the signed delta (a negative delta off the grid is rounded
\* toward zero).
C15_PreparedAbsOfCeilDelta ==
    PreparedVariant =>
        LET u == Val(fret.update)
            v == Val(u.variants)[1]
        IN  /\ PreparedShape(u, v)
            /\ v.rate >= 0
            /\ \E s \in {v.rate, -v.rate} :
                   IsCeilOf(Val(v.target_price) - Val(u.price), s,
                            Val(v.price_rounding))

\* a variant row with several units per price and a negative delta off the grid
C15_Witness ==
    /\ PreparedVariant
    /\ PriceCount(Val(fargs.result).price_count) = 2
    /\ LET u == Val(fret.update)
           v == Val(u.variants)[1]
           d == Val(v.target_price) - Val(u.price)
       IN  d < 0 /\ d % Unit(Val(v.price_rounding)) # 0 /\ v.type = "priceminus"

----------------------------------------------------------------------------
(* logic/processor.py: calc_final_price *)

Min(a, b) == IF a <= b THEN a ELSE b
Max(a, b) == IF a >= b THEN a ELSE b

\* round_up_to_n_decimals with "n is None": n = 0
RoundingOr0(price_rounding) == IF IsNone(price_rounding) THEN 0 ELSE Val(price_rounding)

\* faulty variant of SeedPrice: the maximum price is taken as it is
SeedPriceUnrounded(payload) == Val(payload.fetched_max_price)

\* price = round_up_to_n_decimals(payload.fetched_max_price, payload.price_rounding)
SeedPrice(payload) ==
    round_up_to_n_decimals(Val(payload.fetched_max_price),
                           RoundingOr0(payload.price_rounding))

HasAdjustment(payload) ==
    ~IsNone(payload.min_price_adjustment) /\ ~IsNone(payload.max_price_adjustment)

\* the values random.uniform(min_adj, max_adj) may return, on the grid
Offsets(payload) ==
    IF HasAdjustment(payload)
    THEN Min(Val(payload.min_price_adjustment), Val(payload.max_price_adjustment))
         .. Max(Val(payload.min_price_adjustment), Val(payload.max_price_adjustment))
    ELSE {0}

\* price = price - d_price
Adjusted(price, payload, d_price) ==
    IF HasAdjustment(payload) THEN price - d_price ELSE price

\* faulty variant of ClampLow: no lower limit
ClampLowSkipped(price, payload) == price

\* price = max(price, payload.fetched_min_price)
ClampLow(price, payload) ==
    IF IsNone(payload.fetched_min_price) THEN price
    ELSE Max(price, Val(payload.fetched_min_price))

\* price = min(price, payload.fetched_max_price), before the rounding
ClampHigh(price, payload) ==
    IF IsNone(payload.fetched_max_price) THEN price
    ELSE Min(price, Val(payload.fetched_max_price))

\* faulty variant of Reclamp: the rounded price is returned as it is
ReclampSkipped(price, payload) == price

\* price = min(price, payload.fetched_max_price), after the rounding
Reclamp(price, payload) ==
    IF IsNone(payload.fetched_max_price) THEN price
    ELSE Min(price, Val(payload.fetched_max_price))

\* the rounding step and the second limit
RoundAndReclamp(price, payload) ==
    IF IsNone(payload.price_rounding) THEN price
    ELSE Reclamp(round_up_to_n_decimals(price, Val(payload.price_rounding)), payload)

\* calc_final_price(price, payload): price is the competitive price or None,
\* d_price the value random.uniform returned. [raised, price]: raised stands
\* for the ValueError of a negative price_rounding, price None for "return None"
calc_final_price(price, payload, d_price) ==
    IF IsNone(price) /\ IsNone(payload.fetched_max_price)
    THEN [raised |-> FALSE, price |-> None]
    ELSE IF RoundRaises(RoundingOr0(payload.price_rounding))
    THEN [raised |-> TRUE, price |-> None]
    ELSE LET seed == IF IsNone(price) THEN SeedPrice(payload) ELSE Val(price)
         IN  [raised |-> FALSE,
              price |-> Some(RoundAndReclamp(
                           ClampHigh(ClampLow(Adjusted(seed, payload, d_price),
                                              payload), payload), payload))]

----------------------------------------------------------------------------
(* calc_final_price on its own *)

SampleAdjustments == {None, Some(-2), Some(1), Some(6)}

SamplePayloads ==
    [fetched_min_price : {None, Some(10), Some(20)},
     fetched_max_price : {None, Some(15), Some(30)},
     min_price_adjustment : SampleAdjustments,
     max_price_adjustment : SampleAdjustments,
     price_rounding : {None, Some(-1), Some(0), Some(1)}]

CalcArgs ==
    {a \in [fn : {"calc_final_price"},
            price : {None, Some(8), Some(12), Some(23)},
            payload : SamplePayloads,
            d_price : -2..6] :
        a.d_price \in Offsets(a.payload)}

InitCalc ==
    /\ fargs \in CalcArgs
    /\ fret = NoCall
    /\ cin = <<>> /\ cout = NotRun /\ cout2 = NotRun /\ run = NoRun
    /\ IdleBatcher

\* a call calc_final_price(price, payload)
Calc ==
    /\ fret = NoCall
    /\ fret' = [fn |-> "calc_final_price",
                raised |-> calc_final_price(fargs.price, fargs.payload,
                                            fargs.d_price).raised,
                price |-> calc_final_price(fargs.price, fargs.payload,
                                           fargs.d_price).price]
    /\ UNCHANGED <<fargs, cin, cout, cout2, run>>
    /\ UNCHANGED batcherVars

NextCalc == Calc

SpecCalc == InitCalc /\ [][NextCalc]_vars

\* the call returned a final price
Priced == fret # NoCall /\ ~fret.raised /\ ~IsNone(fret.price)

BothBounds ==
    ~IsNone(fargs.payload.fetched_min_price) /\ ~IsNone(fargs.payload.fetched_max_price)

\* C16 as stated: with a minimum and a maximum price configured, the final
\* price lies between them, for every pair of bounds, competitive price or
\* none, adjustment offset and precision.
C16_WithinBounds ==
    Priced /\ BothBounds =>
        /\ Val(fargs.payload.fetched_min_price) <= Val(fret.price)
        /\ Val(fret.price) <= Val(fargs.payload.fetched_max_price)

\* C16 (amended): the same for every pair of bounds with minimum <= maximum.
C16_WithinOrderedBounds ==
    /\ Priced /\ BothBounds
    /\ Val(fargs.payload.fetched_min_price) <= Val(fargs.payload.fetched_max_price)
    => /\ Val(fargs.payload.fetched_min_price) <= Val(fret.price)
       /\ Val(fret.price) <= Val(fargs.payload.fetched_max_price)

\* ordered bounds, a competitive price that the offset takes below the
\* minimum, and a rounding step
C16_Witness ==
    /\ Priced /\ BothBounds
    /\ Val(fargs.payload.fetched_min_price) < Val(fargs.payload.fetched_max_price)
    /\ ~IsNone(fargs.price) /\ HasAdjustment(fargs.payload)
    /\ Val(fargs.price) - fargs.d_price < Val(fargs.payload.fetched_min_price)
    /\ fargs.payload.price_rounding = Some(0)
    /\ Val(fret.price) >= Val(fargs.payload.fetched_min_price)

\* C17: with a maximum price configured the final price never exceeds it,
\* also when the rounding of the limited price overshoots the maximum.
C17_NeverAboveMax ==
    Priced /\ ~IsNone(fargs.payload.fetched_max_price) =>
        Val(fret.price) <= Val(fargs.payload.fetched_max_price)

\* the limited price is below the maximum, its round-up is above it, and the
\* maximum is returned
C17_Witness ==
    /\ Priced /\ ~IsNone(fargs.payload.fetched_max_price)
    /\ ~IsNone(fargs.price) /\ ~IsNone(fargs.payload.price_rounding)
    /\ LET limited == ClampHigh(ClampLow(Adjusted(Val(fargs.price), fargs.payload,
                                                  fargs.d_price),
                                         fargs.payload), fargs.payload)
       IN  /\ limited < Val(fargs.payload.fetched_max_price)
           /\ \E r \in limited..(limited + Unit(Val(fargs.payload.price_rounding))) :
                  /\ IsCeilOf(limited, r, Val(fargs.payload.price_rounding))
                  /\ r > Val(fargs.payload.fetched_max_price)
    /\ fret.price = fargs.payload.fetched_max_price

\* no competitive price, a maximum price, and a price came back
Fallback ==
    Priced /\ IsNone(fargs.price) /\ ~IsNone(fargs.payload.fetched_max_price)

\* C18: without a competitive price and with a maximum price, the result is
\* the result of the same steps started from the round-up of the maximum to
\* the precision; with no adjustment and minimum <= maximum (or no minimum)
\* it is the maximum price.
C18_FallbackFromMax ==
    Fallback =>
        /\ \E seed \in Val(fargs.payload.fetched_max_price)
                        .. (Val(fargs.payload.fetched_max_price)
                            + Unit(RoundingOr0(fargs.payload.price_rounding))) :
              /\ IsCeilOf(Val(fargs.payload.fetched_max_price), seed,
                          RoundingOr0(fargs.payload.price_rounding))
              /\ fret.price = calc_final_price(Some(seed), fargs.payload,
                                               fargs.d_price).price
        /\ ( /\ ~HasAdjustment(fargs.payload)
              /\ \/ IsNone(fargs.payload.fetched_min_price)
                 \/ Val(fargs.payload.fetched_min_price)
                       <= Val(fargs.payload.fetched_max_price) )
           => fret.price = fargs.payload.fetched_max_price

\* the fallback with a maximum off the grid and an adjustment: the result is
\* the maximum although maximum - offset rounds up to less (the seed was
\* rounded up first); and the fallback without adjustment
C18_Witness ==
    /\ Fallback
    /\ fargs.payload.price_rounding = Some(0)
    /\ Val(fargs.payload.fetched_max_price) % Unit(0) # 0
    /\ \/ /\ HasAdjustment(fargs.payload) /\ fargs.d_price > 0
          /\ fret.price = fargs.payload.fetched_max_price
          /\ \E r \in 0..Val(fargs.payload.fetched_max_price) :
                /\ IsCeilOf(Val(fargs.payload.fetched_max_price) - fargs.d_price, r, 0)
                /\ r < Val(fargs.payload.fetched_max_price)
       \/ /\ ~HasAdjustment(fargs.payload)
          /\ fret.price = fargs.payload.fetched_max_price

----------------------------------------------------------------------------
(* services/digiseller_service.py: analyze_product_offers *)

\* an offer as analyze_product_offers reads it: seller_name and get_price()
BsProduct(seller_name, price) == [seller_name |-> seller_name, price |-> price]

\* str.lower() on the sample seller names
Lower(name) ==
    CASE name = "A" -> "a"
      [] name = "B" -> "b"
      [] name = "C" -> "c"
      [] OTHER -> name

\* safe_blacklist = {name.lower() for name in (black_list or [])}
SafeBlacklist(black_list) ==
    IF IsNone(black_list) THEN {} ELSE {Lower(n) : n \in Val(black_list)}

\* faulty variant of IsValidOffer: the blacklist is not applied
IsValidOfferAnySeller(o, safe_blacklist) ==
    /\ ~IsNone(o.price)
    /\ ~IsNone(o.seller_name) /\ Val(o.seller_name) # ""

\* price is not None and o.seller_name and o.seller_name.lower() not in safe_blacklist
IsValidOffer(o, safe_blacklist) ==
    /\ ~IsNone(o.price)
    /\ ~IsNone(o.seller_name) /\ Val(o.seller_name) # ""
    /\ Lower(Val(o.seller_name)) \notin safe_blacklist

\* sorted(list, key): keys[i] is the key of list[i]; the sort is stable
SortedBy(list, keys) ==
    LET Rank(i) == Cardinality({j \in 1..Len(list) :
                        keys[j] < keys[i] \/ (keys[j] = keys[i] /\ j < i)}) + 1
    IN  [r \in 1..Len(list) |-> list[CHOOSE i \in 1..Len(list) : Rank(i) = r]]

\* a key above every price of the list, for float('inf')
InfKey(offers) ==
    1 + Cardinality(UNION {0..Val(offers[i].price) :
                            i \in {j \in 1..Len(offers) : ~IsNone(offers[j].price)}})

\* key=lambda o: o.get_price() or float('inf'): None and 0 sort last
LogKey(o, offers) == IF TruthyNum(o.price) THEN Val(o.price) ELSE InfKey(offers)

\* faulty variant of ClearsMin: every offer qualifies
ClearsMinAlways(offer_price, min_price) == TRUE

\* if offer_price >= min_price
ClearsMin(offer_price, min_price) == offer_price >= min_price

\* the first offer of sorted_offers that clears the minimum, or None
FirstClearing(sorted_offers, min_price) ==
    LET I == {i \in 1..Len(sorted_offers) :
                ClearsMin(Val(sorted_offers[i].price), min_price)}
    IN  IF I = {} THEN None
        ELSE Some(sorted_offers[CHOOSE i \in I : \A j \in I : i <= j])

\* faulty variant of BelowLimit: the offers are always compared with min_price
BelowLimitAlwaysMin(competitive_price, min_price) == min_price

\* the price the logged offers are below: the competitive price when one was
\* found, min_price otherwise
BelowLimit(competitive_price, min_price) ==
    IF IsNone(competitive_price) THEN min_price ELSE Val(competitive_price)

\* analyze_product_offers(offers, min_price, black_list)
analyze_product_offers(offers, min_price0, black_list) ==
    LET min_price == IF IsNone(min_price0) THEN 0 ELSE Val(min_price0)
        valid_offers == SelectSeq(offers,
                            LAMBDA o : IsValidOffer(o, SafeBlacklist(black_list)))
        sorted_offers == SortedBy(valid_offers,
                            [i \in 1..Len(valid_offers) |-> Val(valid_offers[i].price)])
        valid_competitor == FirstClearing(sorted_offers, min_price)
        competitive_price == IF IsNone(valid_competitor) THEN None
                             ELSE Val(valid_competitor).price
        all_sorted_offers == SortedBy(offers,
                                [i \in 1..Len(offers) |-> LogKey(offers[i], offers)])
        limit == BelowLimit(competitive_price, min_price)
    IN  IF offers = <<>>
        THEN [valid_competitor |-> None, competitive_price |-> None,
              top_sellers_for_log |-> <<>>, sellers_below_min |-> <<>>]
        ELSE [valid_competitor |-> valid_competitor,
              competitive_price |-> competitive_price,
              top_sellers_for_log |->
                  SubSeq(all_sorted_offers, 1, Min(4, Len(all_sorted_offers))),
              sellers_below_min |->
                  SelectSeq(all_sorted_offers,
                      LAMBDA o : ~IsNone(o.price) /\ Val(o.price) < limit)]

----------------------------------------------------------------------------
(* analyze_product_offers on its own *)

SampleOffers ==
    { BsProduct(Some("A"), Some(9)),
      BsProduct(Some("B"), Some(12)),
      BsProduct(Some("b"), Some(10)),
      BsProduct(Some("C"), Some(15)),
      BsProduct(Some("C"), Some(0)),
      BsProduct(None, Some(11)),
      BsProduct(Some(""), Some(13)),
      BsProduct(Some("A"), None) }

SampleBlacklists == {None, Some({}), Some({"B"}), Some({"a", "c"})}

AnalyzeArgs ==
    [fn : {"analyze_product_offers"},
     offers : SeqsUpTo(SampleOffers, MaxLen),
     min_price : {None, Some(10), Some(13)},
     black_list : SampleBlacklists]

InitAnalyze ==
    /\ fargs \in AnalyzeArgs
    /\ fret = NoCall
    /\ cin = <<>> /\ cout = NotRun /\ cout2 = NotRun /\ run = NoRun
    /\ IdleBatcher

\* a call analyze_product_offers(offers, min_price, black_list)
Analyze ==
    /\ fret = NoCall
    /\ fret' = [fn |-> "analyze_product_offers",
                analysis |-> analyze_product_offers(fargs.offers, fargs.min_price,
                                                    fargs.black_list)]
    /\ UNCHANGED <<fargs, cin, cout, cout2, run>>
    /\ UNCHANGED batcherVars

NextAnalyze == Analyze

SpecAnalyze == InitAnalyze /\ [][NextAnalyze]_vars

Analyzed == fret # NoCall

\* C20: for all offer lists, blacklists and minimum prices, the competitive
\* price that analyze_product_offers returns is absent or >= the minimum price.
C20_CompetitiveNotBelowMin ==
    Analyzed /\ ~IsNone(fargs.min_price) =>
        \/ IsNone(fret.analysis.competitive_price)
        \/ Val(fret.analysis.competitive_price) >= Val(fargs.min_price)

\* a competitive price was chosen although a cheaper offer of a seller that is
\* not blacklisted lies below the minimum
C20_Witness ==
    /\ Analyzed /\ ~IsNone(fargs.min_price)
    /\ ~IsNone(fret.analysis.competitive_price)
    /\ \E i \in 1..Len(fargs.offers) :
          /\ IsValidOffer(fargs.offers[i], SafeBlacklist(fargs.black_list))
          /\ Val(fargs.offers[i].price) < Val(fargs.min_price)

----------------------------------------------------------------------------
(* logic/processor.py: do_compare_flow and process_single_payload;         *)
(* main.py: process_payload_worker                                         *)

\* the outcome of do_compare_flow: the exception that left it ("none" when it
\* returned) with the reason of its message, the final price and the analysis
FlowRaised(exc, reason) ==
    [raised |-> exc, reason |-> reason, final_price |-> None,
     competitive_price |-> None]

\* faulty variant of MinPriceMissing: the test is never true
MinPriceMissingNever(payload) == FALSE

\* if payload.fetched_min_price is None: raise ValueError
MinPriceMissing(payload) == IsNone(payload.fetched_min_price)

\* row: the payload, the answer of the compare page (http), the offers
\* get_product_list extracted and the value random.uniform returned
do_compare_flow(row) ==
    LET payload == row.payload
    IN  IF IsNone(payload.product_compare) THEN FlowRaised("ValueError", "no_link")
        ELSE IF row.http = "request_error" THEN FlowRaised("ConnectionError", "fetch")
        ELSE IF row.http = "status_error" THEN FlowRaised("HTTPStatusError", "fetch")
        ELSE IF row.product_list = <<>> THEN FlowRaised("ValueError", "no_products")
        ELSE IF MinPriceMissing(payload) THEN FlowRaised("ValueError", "no_min_price")
        ELSE IF IsNone(payload.price_rounding)
        THEN FlowRaised("ValueError", "no_rounding")
        ELSE LET analysis == analyze_product_offers(row.product_list,
                                 payload.fetched_min_price, payload.fetched_black_list)
                 final == calc_final_price(analysis.competitive_price, payload,
                                           row.d_price)
             IN  IF final.raised THEN FlowRaised("ValueError", "rounding")
                 ELSE [raised |-> "none", reason |-> "none",
                       final_price |-> final.price,
                       competitive_price |-> analysis.competitive_price]

\* the branch "if not payload.is_compare_enabled"
NoCompareFlow(payload) ==
    IF IsNone(payload.fetched_min_price)
    THEN FlowRaised("ValueError", "no_min_price")
    ELSE IF IsNone(payload.price_rounding)
    THEN FlowRaised("ValueError", "no_rounding")
    ELSE IF RoundRaises(Val(payload.price_rounding))
    THEN FlowRaised("ValueError", "rounding")
    ELSE [raised |-> "none", reason |-> "none",
          final_price |-> Some(ClampHigh(
              round_up_to_n_decimals(Val(payload.fetched_min_price),
                                     Val(payload.price_rounding)), payload)),
          competitive_price |-> payload.target_price]

\* what process_single_payload returns: the kind of the log note, the error
\* behind an error note, and product_update
RowResult(note, error, product_update) ==
    [note |-> note, error |-> error, product_update |-> product_update]

\* except (ValueError, ConnectionError, TypeError): "Lỗi: ..."; any other
\* exception: "Lỗi nghiêm trọng: ..."
RowError(exc, error) ==
    RowResult(IF exc \in {"ValueError", "ConnectionError", "TypeError"}
              THEN "error" ELSE "severe", error, None)

\* faulty variant of FinalPriceMissing: the test is never true
FinalPriceMissingNever(final_price) == FALSE

\* if final_price is None ...: raise ValueError
FinalPriceMissing(final_price) == IsNone(final_price)

\* the note of a row whose update was prepared
PreparedNote(payload, update) ==
    IF payload.compare_type = "noCompare" THEN "not_compare"
    ELSE IF payload.compare_type = "compare2" /\ update.is_ignore THEN "compare2"
    ELSE "compare"

\* faulty variant of BelowMin: the test is never true
BelowMinNever(final_price, min_price) == FALSE

\* elif final_price < payload.get_min_price()
BelowMin(final_price, min_price) == final_price < min_price

process_single_payload(row) ==
    LET payload == row.payload
        flow == IF payload.is_compare_enabled THEN do_compare_flow(row)
                ELSE NoCompareFlow(payload)
    IN  IF flow.raised # "none" THEN RowError(flow.raised, flow.reason)
        ELSE IF FinalPriceMissing(flow.final_price)
        THEN RowError("ValueError", "no_reference_price")
        ELSE IF ~payload.is_have_min_price
        THEN RowResult("no_min_price", "none", None)
        \* final_price < payload.get_min_price(): None on either side is a TypeError
        ELSE IF IsNone(flow.final_price) \/ IsNone(payload.min_price)
        THEN RowError("TypeError", "compare_with_none")
        ELSE IF BelowMin(Val(flow.final_price), Val(payload.min_price))
        THEN RowResult("below_min", "none", None)
        ELSE LET prepared == prepare_price_update(
                     [price |-> Val(flow.final_price),
                      product_id |-> payload.product_id,
                      price_rounding |-> payload.price_rounding,
                      product_variant_id |-> payload.product_variant_id,
                      found_variant_api_id |-> row.found_variant_api_id,
                      result |-> row.result,
                      current_price |-> payload.current_price,
                      target_price |-> flow.competitive_price,
                      compare2 |-> payload.compare_type = "compare2"])
             IN  IF prepared.raised THEN RowError("ValueError", "prepare")
                 ELSE RowResult(PreparedNote(payload, Val(prepared.update)),
                                "none", prepared.update)

\* process_payload_worker: process_single_payload catches every exception, so
\* the retryer sees none; added is what is passed to batcher.add (None when
\* nothing is), log_data the returned log record
process_payload_worker(row) ==
    LET result == process_single_payload(row)
    IN  [added |-> result.product_update,
         log_data |-> Some([note |-> result.note, error |-> result.error])]

----------------------------------------------------------------------------
(* one row through process_payload_worker *)

RowPayloads ==
    [is_compare_enabled : BOOLEAN,
     product_compare : {None, Some("link")},
     fetched_min_price : {None, Some(10)},
     fetched_max_price : {None, Some(15)},
     fetched_black_list : {None, Some({"B"})},
     min_price_adjustment : {None, Some(1)},
     max_price_adjustment : {None, Some(1)},
     price_rounding : {None, Some(0)},
     product_id : {Some(1)},
     product_variant_id : {None, Some(1)},
     current_price : {Some(10)},
     target_price : {None},
     is_have_min_price : BOOLEAN,
     min_price : {Some(10), Some(20)},
     compare_type : {"noCompare", "compare", "compare2"}]

RowArgs ==
    {a \in [fn : {"process_payload_worker"},
            payload : RowPayloads,
            http : {"ok", "request_error", "status_error"},
            product_list : SeqsUpTo({BsProduct(Some("A"), Some(9)),
                                     BsProduct(Some("B"), Some(12)),
                                     BsProduct(Some("C"), Some(15))}, 1),
            d_price : 0..1,
            result : {None, Some([base_price |-> Some(10), price_count |-> Some(1)])},
            found_variant_api_id : {Some(3)}] :
        /\ a.payload.min_price_adjustment = a.payload.max_price_adjustment
        /\ a.d_price \in Offsets(a.payload)}

InitRow ==
    /\ fargs \in RowArgs
    /\ fret = NoCall
    /\ cin = <<>> /\ cout = NotRun /\ cout2 = NotRun /\ run = NoRun
    /\ IdleBatcher

\* a call process_payload_worker(hydrated_payload, batcher, http_client)
ProcessRow ==
    /\ fret = NoCall
    /\ fret' = [fn |-> "process_payload_worker",
                added |-> process_payload_worker(fargs).added,
                log_data |-> process_payload_worker(fargs).log_data]
    /\ UNCHANGED <<fargs, cin, cout, cout2, run>>
    /\ UNCHANGED batcherVars

NextRow == ProcessRow

SpecRow == InitRow /\ [][NextRow]_vars

\* the compare flow of the row reached the price calculation with no
\* competitive price and no maximum price
NoReference ==
    /\ fargs.payload.is_compare_enabled
    /\ ~IsNone(fargs.payload.product_compare) /\ fargs.http = "ok"
    /\ fargs.product_list # <<>>
    /\ ~IsNone(fargs.payload.fetched_min_price)
    /\ ~IsNone(fargs.payload.price_rounding)
    /\ IsNone(analyze_product_offers(fargs.product_list,
                   fargs.payload.fetched_min_price,
                   fargs.payload.fetched_black_list).competitive_price)
    /\ IsNone(fargs.payload.fetched_max_price)

\* C19: when the competitive price and the maximum price are both absent, the
\* row ends with the error note of the missing reference price, the worker
\* returns the row's log record (nothing is raised out of the row), and no
\* update of the row is passed to the batcher.
C19_NoReferencePrice ==
    fret # NoCall /\ NoReference =>
        /\ IsNone(fret.added)
        /\ ~IsNone(fret.log_data)
        /\ Val(fret.log_data).note = "error"
        /\ Val(fret.log_data).error = "no_reference_price"

\* such a row with offers that are all blacklisted or below the minimum, a
\* configured minimum price and a product description: only the missing
\* reference price stops it
C19_Witness ==
    /\ fret # NoCall /\ NoReference
    /\ fargs.payload.is_have_min_price
    /\ ~IsNone(fargs.result)
    /\ IsNone(fret.added)
    /\ Val(fret.log_data).error = "no_reference_price"

----------------------------------------------------------------------------
(* analyze_product_offers: the chosen offer and the diagnostic list *)

\* the offer names a seller and carries a price
Complete(o) == ~IsNone(o.seller_name) /\ Val(o.seller_name) # "" /\ ~IsNone(o.price)

\* the seller of the offer is on the blacklist, letter case ignored
Blacklisted(o, black_list) ==
    /\ ~IsNone(black_list)
    /\ \E n \in Val(black_list) : Lower(n) = Lower(Val(o.seller_name))

\* the positions of the offers that may be chosen: seller not blacklisted and
\* price >= the minimum
Qualifying ==
    {i \in 1..Len(fargs.offers) :
        /\ Complete(fargs.offers[i])
        /\ ~Blacklisted(fargs.offers[i], fargs.black_list)
        /\ Val(fargs.offers[i].price) >= Val(fargs.min_price)}

\* C21: the chosen offer is a cheapest one among the offers whose seller is not
\* blacklisted (letter case ignored) and whose price is >= the minimum price,
\* the competitive price is its price, nothing is chosen exactly when no such
\* offer exists, and a blacklisted seller is never chosen.
C21_CheapestQualifying ==
    Analyzed /\ ~IsNone(fargs.min_price) =>
        LET a == fret.analysis
        IN  /\ IsNone(a.valid_competitor) <=> Qualifying = {}
            /\ IsNone(a.competitive_price) <=> Qualifying = {}
            /\ Qualifying # {} =>
                  /\ \E i \in Qualifying : fargs.offers[i] = Val(a.valid_competitor)
                  /\ \A i \in Qualifying :
                        Val(Val(a.valid_competitor).price) <= Val(fargs.offers[i].price)
                  /\ a.competitive_price = Val(a.valid_competitor).price
                  /\ ~Blacklisted(Val(a.valid_competitor), fargs.black_list)

\* a cheaper offer is below the minimum, a cheaper offer that clears it is of
\* a blacklisted seller written in another letter case, and the third is chosen
C21_Witness ==
    /\ Analyzed /\ ~IsNone(fargs.min_price)
    /\ ~IsNone(fret.analysis.valid_competitor)
    /\ \E i, j \in 1..Len(fargs.offers) :
          /\ Complete(fargs.offers[i]) /\ Complete(fargs.offers[j])
          /\ Val(fargs.offers[i].price) < Val(fargs.min_price)
          /\ ~Blacklisted(fargs.offers[i], fargs.black_list)
          /\ Blacklisted(fargs.offers[j], fargs.black_list)
          /\ Val(fargs.offers[j].seller_name) \notin Val(fargs.black_list)
          /\ Val(fargs.offers[j].price) >= Val(fargs.min_price)
          /\ Val(fargs.offers[j].price) < Val(fret.analysis.competitive_price)

\* the offers of the call that carry a price strictly below p
PricedBelow(p) ==
    SelectSeq(fargs.offers, LAMBDA o : ~IsNone(o.price) /\ Val(o.price) < p)

\* C22: the 'below' list holds exactly the offers, blacklisted or not, priced
\* strictly below the competitive price when one was found, and exactly the
\* offers priced strictly below the minimum price when none was found.
C22_BelowListIgnoresBlacklist ==
    Analyzed /\ ~IsNone(fargs.min_price) =>
        LET a == fret.analysis
        IN  SeqToBag(a.sellers_below_min) =
                SeqToBag(PricedBelow(IF IsNone(a.competitive_price)
                                     THEN Val(fargs.min_price)
                                     ELSE Val(a.competitive_price)))

\* a competitive price above the minimum was found and the list holds an
\* offer of a blacklisted seller priced between the two
C22_Witness ==
    /\ Analyzed /\ ~IsNone(fargs.min_price)
    /\ ~IsNone(fret.analysis.competitive_price)
    /\ \E i \in 1..Len(fret.analysis.sellers_below_min) :
          LET o == fret.analysis.sellers_below_min[i]
          IN  /\ Complete(o) /\ Blacklisted(o, fargs.black_list)
              /\ Val(o.price) >= Val(fargs.min_price)

----------------------------------------------------------------------------
(* the row with no minimum price *)

\* comparison is required and the row has no minimum price
CompareWithoutMin ==
    /\ fret # NoCall
    /\ fargs.payload.is_compare_enabled
    /\ IsNone(fargs.payload.fetched_min_price)

\* the compare page was fetched and offers were extracted from it
OffersFetched ==
    /\ ~IsNone(fargs.payload.product_compare) /\ fargs.http = "ok"
    /\ fargs.product_list # <<>>

\* C23: when comparison is required and the minimum price is absent, no
\* analysis result is produced: the row fails (with the invalid-input error
\* of the missing minimum price once the offers are there), and no update
\* priced against a substituted minimum leaves the row.
C23_NoAnalysisWithoutMin ==
    CompareWithoutMin =>
        /\ IsNone(fret.added)
        /\ Val(fret.log_data).note \in {"error", "severe"}
        /\ OffersFetched =>
              /\ Val(fret.log_data).note = "error"
              /\ Val(fret.log_data).error = "no_min_price"

\* such a row whose offers, rounding, row minimum and product description
\* would otherwise have given an update
C23_Witness ==
    /\ CompareWithoutMin /\ OffersFetched
    /\ ~IsNone(fargs.payload.price_rounding)
    /\ fargs.payload.is_have_min_price /\ fargs.payload.min_price = Some(10)
    /\ fargs.product_list[1].price = Some(15)
    /\ ~IsNone(fargs.result)
    /\ Val(fret.log_data).error = "no_min_price"

----------------------------------------------------------------------------
(* main.py: create_chunks *)

MaxData == 6

\* faulty variant of create_chunks: an incomplete last chunk is left out
create_chunks_full_only(data, chunk_size) ==
    [k \in 1..(Len(data) \div chunk_size) |->
        SubSeq(data, (k - 1) * chunk_size + 1, k * chunk_size)]

\* [data[i:i + chunk_size] for i in range(0, len(data), chunk_size)]: the
\* range has ceil(len / chunk_size) elements and a slice ends with the list
create_chunks(data, chunk_size) ==
    [k \in 1..CeilDiv(Len(data), chunk_size) |->
        SubSeq(data, (k - 1) * chunk_size + 1, Min(k * chunk_size, Len(data)))]

SamplePayloadIds == {1, 2, 3}

ChunkArgs ==
    [fn : {"create_chunks"},
     data : SeqsUpTo(SamplePayloadIds, MaxData),
     chunk_size : 1..ChunkSize]

InitChunks ==
    /\ fargs \in ChunkArgs
    /\ fret = NoCall
    /\ cin = <<>> /\ cout = NotRun /\ cout2 = NotRun /\ run = NoRun
    /\ IdleBatcher

\* a call create_chunks(data, chunk_size)
CreateChunks ==
    /\ fret = NoCall
    /\ fret' = [fn |-> "create_chunks",
                chunks |-> create_chunks(fargs.data, fargs.chunk_size)]
    /\ UNCHANGED <<fargs, cin, cout, cout2, run>>
    /\ UNCHANGED batcherVars

NextChunks == CreateChunks

SpecChunks == InitChunks /\ [][NextChunks]_vars

RECURSIVE Flatten(_)
Flatten(ss) == IF ss = <<>> THEN <<>> ELSE Head(ss) \o Flatten(Tail(ss))

\* C24: the chunks, concatenated in order, give the input list unchanged;
\* every chunk but the last has exactly chunk_size elements, the last has
\* between 1 and chunk_size; an empty input gives no chunk.
C24_ChunksPartition ==
    fret # NoCall =>
        LET chunks == fret.chunks
        IN  /\ Flatten(chunks) = fargs.data
            /\ \A k \in 1..Len(chunks) :
                  IF k < Len(chunks) THEN Len(chunks[k]) = fargs.chunk_size
                  ELSE Len(chunks[k]) >= 1 /\ Len(chunks[k]) <= fargs.chunk_size
            /\ fargs.data = <<>> => chunks = <<>>

\* several full chunks and an incomplete last one, of a list with repeated
\* and unordered elements
C24_Witness ==
    /\ fret # NoCall
    /\ Len(fret.chunks) = 3
    /\ Len(fret.chunks[3]) < fargs.chunk_size
    /\ fargs.chunk_size = 2
    /\ fargs.data[1] > fargs.data[2] /\ fargs.data[4] = fargs.data[1]

----------------------------------------------------------------------------
(* main.py: the chunk loop of run_automation, one step per suspension      *)
(* point of the main task and per finished pipeline task                   *)

MaxRows == 6

\* payloads_to_process as row numbers, and payload_chunks
RowList(n) == [k \in 1..n |-> k]

PayloadChunks == create_chunks(RowList(run.n), ChunkSize)

RowsOf(k) == {PayloadChunks[k][j] : j \in 1..Len(PayloadChunks[k])}

\* one entry of the record of what the main task did: chunk k started its
\* tasks ("start"), was skipped ("skip"), had its logs written ("write", with
\* the rows of the call and the tasks of the chunk still running) or began
\* its pause ("sleep"), or the run was interrupted ("shutdown", with the
\* tasks running at that moment)
RunEvent(e, k, rows, unfinished) ==
    [e |-> e, chunk |-> k, rows |-> rows, unfinished |-> unfinished]

InitRun ==
    /\ run \in {[of |-> "run_automation", n |-> n, i |-> 0, mpc |-> "start",
                  st |-> [r \in 1..n |-> "new"], trace |-> <<>>] : n \in 0..MaxRows}
    /\ fargs = NoCall /\ fret = NoCall
    /\ cin = <<>> /\ cout = NotRun /\ cout2 = NotRun
    /\ IdleBatcher

\* "if not payloads_to_process: return", else the loop is entered
RunBegin ==
    /\ run.of = "run_automation" /\ run.mpc = "start"
    /\ run' = IF run.n = 0 THEN [run EXCEPT !.mpc = "done"]
              ELSE [run EXCEPT !.mpc = "fetch", !.i = 1]
    /\ UNCHANGED <<fargs, fret, cin, cout, cout2>>
    /\ UNCHANGED batcherVars

\* "await client.get_valid_token()" raised before the loop: the exception
\* leaves the scope and is logged by run_automation
TokenRaises ==
    /\ run.of = "run_automation" /\ run.mpc = "start" /\ run.n > 0
    /\ run' = [run EXCEPT !.mpc = "aborted"]
    /\ UNCHANGED <<fargs, fret, cin, cout, cout2>>
    /\ UNCHANGED batcherVars

\* fetch_data_for_payloads_chunk returned: the tasks of the chunk are created
\* and asyncio.gather schedules them all
FetchReturns ==
    /\ run.of = "run_automation" /\ run.mpc = "fetch"
    /\ run' = [run EXCEPT
                 !.mpc = "gather",
                 !.st = [r \in 1..run.n |->
                           IF r \in RowsOf(run.i) THEN "running" ELSE run.st[r]],
                 !.trace = Append(@, RunEvent("start", run.i, <<>>,
                               {r \in 1..run.n : run.st[r] = "running"}))]
    /\ UNCHANGED <<fargs, fret, cin, cout, cout2>>
    /\ UNCHANGED batcherVars

\* faulty variant of AfterChunk: the loop ends
AfterChunkEndsLoop(i) == "closing"

\* the step of the loop after chunk i: the next chunk, or the end of the scope
AfterChunk(i) == IF i < Len(PayloadChunks) THEN "fetch" ELSE "closing"

\* fetch_data_for_payloads_chunk raised: "continue"
FetchRaises ==
    /\ run.of = "run_automation" /\ run.mpc = "fetch"
    /\ run' = [run EXCEPT
                 !.mpc = AfterChunk(run.i),
                 !.i = @ + 1,
                 !.st = [r \in 1..run.n |->
                           IF r \in RowsOf(run.i) THEN "skipped" ELSE run.st[r]],
                 !.trace = Append(@, RunEvent("skip", run.i, <<>>, {}))]
    /\ UNCHANGED <<fargs, fret, cin, cout, cout2>>
    /\ UNCHANGED batcherVars

\* what the collaborator does on one attempt: it answers (kind "status" with
\* the status code and whether the body carries the queue-limit text), the
\* request times out, fails to connect, or the call fails for another reason
Answer(kind, status, queue_text) ==
    [kind |-> kind, status |-> status, queue_text |-> queue_text]

Answers ==
    {Answer("ok", 200, FALSE), Answer("timeout", 0, FALSE),
     Answer("connect", 0, FALSE), Answer("other", 0, FALSE)}
    \cup {Answer("status", s, FALSE) : s \in {400, 404, 429, 500}}
    \cup {Answer("status", s, TRUE) : s \in {400, 500}}

\* the row of one attempt of the pipeline: the compare page gives the answer;
\* the answer "other" is a row without rounding precision
RetryRow(answer) ==
    [fn |-> "process_payload_worker",
     payload |-> [is_compare_enabled |-> TRUE,
                  product_compare |-> Some("link"),
                  fetched_min_price |-> Some(10),
                  fetched_max_price |-> Some(15),
                  fetched_black_list |-> None,
                  min_price_adjustment |-> None,
                  max_price_adjustment |-> None,
                  price_rounding |-> IF answer.kind = "other" THEN None ELSE Some(0),
                  product_id |-> Some(1),
                  product_variant_id |-> None,
                  current_price |-> Some(10),
                  target_price |-> None,
                  is_have_min_price |-> TRUE,
                  min_price |-> Some(10),
                  compare_type |-> "compare"],
     http |-> IF answer.kind \in {"timeout", "connect"} THEN "request_error"
              ELSE IF answer.kind = "status" THEN "status_error"
              ELSE "ok",
     product_list |-> <<BsProduct(Some("A"), Some(12))>>,
     d_price |-> 0,
     result |-> Some([base_price |-> Some(10), price_count |-> Some(1)]),
     found_variant_api_id |-> Some(3)]

\* faulty variant of WorkerOutcome: a row without update leaves no record
WorkerOutcomeSilentFailure(res) ==
    IF IsNone(res.log_data) \/ IsNone(res.added) THEN "silent" ELSE "ok"

\* what the task of a row leaves in results: a log record after a price
\* update was handed on ("ok"), a log record without update ("failed"), or
\* None ("silent")
WorkerOutcome(res) ==
    IF IsNone(res.log_data) THEN "silent"
    ELSE IF IsNone(res.added) THEN "failed" ELSE "ok"

\* process_payload_worker of row r ends, for any answer of the compare page
TaskEnds(r) ==
    /\ run.of = "run_automation"
    /\ r \in 1..run.n /\ run.st[r] = "running"
    /\ \E answer \in Answers :
          run' = [run EXCEPT !.st[r] =
                      WorkerOutcome(process_payload_worker(RetryRow(answer)))]
    /\ UNCHANGED <<fargs, fret, cin, cout, cout2>>
    /\ UNCHANGED batcherVars

\* faulty variant of AllFinished: the results are taken without waiting
AllFinishedNoWait(rows) == TRUE

\* await asyncio.gather(*tasks, return_exceptions=True) returns when every
\* task of the chunk has finished
AllFinished(rows) == \A r \in rows : run.st[r] # "running"

\* faulty variant of Writebacks: one call per log record
WritebacksPerRow(k, log_updates, unfinished) ==
    [j \in 1..Len(log_updates) |->
        RunEvent("write", k, <<log_updates[j]>>, unfinished)]

\* if log_updates: sheet_service.batch_update_logs(log_updates)
Writebacks(k, log_updates, unfinished) ==
    IF log_updates = <<>> THEN <<>>
    ELSE <<RunEvent("write", k, log_updates, unfinished)>>

\* the pause between chunks starts: if i < len(payload_chunks) - 1
Pause(k) ==
    IF k < Len(PayloadChunks) THEN <<RunEvent("sleep", k, <<>>, {})>> ELSE <<>>

\* the log records of the results of chunk k, in the order of the tasks
\* ("elif res: log_updates.append(res)")
LogUpdates(k) ==
    SelectSeq(PayloadChunks[k], LAMBDA r : run.st[r] \in {"ok", "failed"})

\* gather returned, the log records are collected and written back in the
\* same step (batch_update_logs is a plain call), then the pause starts
GatherReturns ==
    /\ run.of = "run_automation" /\ run.mpc = "gather"
    /\ AllFinished(RowsOf(run.i))
    /\ run' = [run EXCEPT
                 !.mpc = IF run.i < Len(PayloadChunks) THEN "sleep" ELSE "closing",
                 !.i = IF run.i < Len(PayloadChunks) THEN @ ELSE @ + 1,
                 !.trace = @ \o Writebacks(run.i, LogUpdates(run.i),
                                  {r \in RowsOf(run.i) : run.st[r] = "running"})
                             \o Pause(run.i)]
    /\ UNCHANGED <<fargs, fret, cin, cout, cout2>>
    /\ UNCHANGED batcherVars

\* batch_update_logs raised: the exception leaves the loop and the scope and
\* is logged by run_automation
WritebackRaises ==
    /\ run.of = "run_automation" /\ run.mpc = "gather"
    /\ AllFinished(RowsOf(run.i))
    /\ LogUpdates(run.i) # <<>>
    /\ run' = [run EXCEPT !.mpc = "aborted"]
    /\ UNCHANGED <<fargs, fret, cin, cout, cout2>>
    /\ UNCHANGED batcherVars

\* asyncio.sleep(settings.SLEEP_TIME) is over
SleepEnds ==
    /\ run.of = "run_automation" /\ run.mpc = "sleep"
    /\ run' = [run EXCEPT !.mpc = "fetch", !.i = @ + 1]
    /\ UNCHANGED <<fargs, fret, cin, cout, cout2>>
    /\ UNCHANGED batcherVars

\* the loop is over: the scope is left
RunEnds ==
    /\ run.of = "run_automation" /\ run.mpc = "closing"
    /\ run' = [run EXCEPT !.mpc = "done"]
    /\ UNCHANGED <<fargs, fret, cin, cout, cout2>>
    /\ UNCHANGED batcherVars

\* Ctrl+C while the main task waits (for the bulk fetch, for gather or in
\* the pause): asyncio.run cancels the main task, the cancellation reaches
\* the tasks gather waits for, and run_automation is left; no flag is tested
\* anywhere in the loop
Interrupt ==
    /\ run.of = "run_automation" /\ run.mpc \in {"fetch", "gather", "sleep"}
    /\ run' = [run EXCEPT
                 !.mpc = "cancelled",
                 !.st = [r \in 1..run.n |->
                           IF run.st[r] = "running" THEN "cancelled" ELSE run.st[r]],
                 !.trace = Append(@, RunEvent("shutdown", run.i, <<>>,
                               {r \in 1..run.n : run.st[r] = "running"}))]
    /\ UNCHANGED <<fargs, fret, cin, cout, cout2>>
    /\ UNCHANGED batcherVars

NextRun ==
    \/ RunBegin \/ FetchReturns \/ FetchRaises
    \/ \E r \in 1..MaxRows : TaskEnds(r)
    \/ GatherReturns \/ WritebackRaises \/ SleepEnds \/ RunEnds
    \/ Interrupt \/ TokenRaises

SpecRun == InitRun /\ [][NextRun]_vars

InFlight == {r \in 1..run.n : run.st[r] = "running"}

Started(k) == \E r \in RowsOf(k) : run.st[r] \in {"running", "ok", "failed"}

\* C25: at every moment at most chunk-size pipeline tasks are in flight, and
\* no task of a later chunk has started unless every task of every earlier
\* chunk has completed or failed (or its chunk was never started).
C25_ChunksSequentialBounded ==
    run.of = "run_automation" =>
        /\ Cardinality(InFlight) <= ChunkSize
        /\ \A k, m \in 1..Len(PayloadChunks) :
              k < m /\ Started(m) =>
                  \A q \in RowsOf(k) : run.st[q] \in {"ok", "failed", "skipped"}

\* the tasks of the second chunk are in flight after a first chunk of full
\* size ran, one of its rows having failed
C25_Witness ==
    /\ run.of = "run_automation" /\ run.mpc = "gather" /\ run.i = 2
    /\ Cardinality(RowsOf(1)) = ChunkSize
    /\ Cardinality(InFlight) = 2
    /\ \E q \in RowsOf(1) : run.st[q] = "failed"
    /\ \E q \in RowsOf(1) : run.st[q] = "ok"

Positions26(e, k) ==
    {p \in 1..Len(run.trace) : run.trace[p].e = e /\ run.trace[p].chunk = k}

\* C26: the logs of a chunk are written in one call that carries the records
\* of all its tasks, made when none of its tasks is still running; the call
\* comes before the chunk's pause and before any later chunk is started or
\* skipped, and a pause or a later start never comes without it.
C26_WritebackAfterChunk ==
    run.of = "run_automation" =>
        \A k \in 1..Len(PayloadChunks) :
            /\ Cardinality(Positions26("write", k)) <= 1
            /\ \A p \in Positions26("write", k) :
                  /\ run.trace[p].unfinished = {}
                  /\ run.trace[p].rows = PayloadChunks[k]
                  /\ \E q \in Positions26("start", k) : q < p
                  /\ \A q \in Positions26("sleep", k) : p < q
                  /\ \A q \in 1..Len(run.trace) :
                        run.trace[q].chunk > k => p < q
            /\ \A q \in Positions26("sleep", k) : Positions26("write", k) # {}
            /\ \A m \in 1..Len(PayloadChunks) :
                  k < m /\ Positions26("start", k) # {}
                        /\ (Positions26("start", m) \cup Positions26("skip", m)) # {}
                  => Positions26("write", k) # {}

\* the first chunk's logs were written, its pause taken, and the second
\* chunk's logs were written too
C26_Witness ==
    /\ run.of = "run_automation" /\ run.mpc = "done"
    /\ Len(run.trace) = 5
    /\ run.trace[2].e = "write" /\ Len(run.trace[2].rows) = ChunkSize
    /\ run.trace[3].e = "sleep"
    /\ run.trace[4].e = "start" /\ run.trace[5].e = "write"

----------------------------------------------------------------------------
(* the retry layers: _make_request (pricing API), _get_inside_info
   (competitor detail pages) and process_payload_worker (one row) *)

\* an exception value: its class and, for an HTTPStatusError, the status code
Exc(type, status) == [type |-> type, status |-> status]

NoExc == Exc("none", 0)

\* the exception of client.request / raise_for_status for an answer
RaisedBy(answer) ==
    IF answer.kind = "ok" THEN NoExc
    ELSE IF answer.kind = "timeout" THEN Exc("TimeoutException", 0)
    ELSE IF answer.kind = "connect" THEN Exc("ConnectError", 0)
    ELSE IF answer.kind = "status" THEN Exc("HTTPStatusError", answer.status)
    ELSE Exc("ValueError", 0)

\* httpx.TimeoutException and httpx.ConnectError are httpx.RequestError
IsRequestError(exception) ==
    exception.type \in {"TimeoutException", "ConnectError"}

\* the outcome of one attempt: the exception it raised (NoExc when it
\* returned) and, for a row, the note of the returned record
AttemptOutcome(raised, note) == [raised |-> raised, note |-> note]

\* faulty variant of _make_request: the queue-limit answer is not told apart
_make_request_plain(answer) == AttemptOutcome(RaisedBy(answer), "none")

\* one pass through the body of _make_request
_make_request(answer) ==
    IF answer.kind = "status" /\ answer.status = 400 /\ answer.queue_text
    THEN AttemptOutcome(Exc("QueueLimitExceededError", 400), "none")
    ELSE AttemptOutcome(RaisedBy(answer), "none")

\* fetch_page / fetch_price of _get_inside_info
fetch_page(answer) == AttemptOutcome(RaisedBy(answer), "none")

\* retryer(process_single_payload, ...): process_single_payload returns a
\* record on every path
PipelineAttempt(answer) ==
    AttemptOutcome(NoExc, process_single_payload(RetryRow(answer)).note)

Layers == {"_make_request", "_get_inside_info", "process_payload_worker"}

AttemptOf(layer, answer) ==
    IF layer = "_make_request" THEN _make_request(answer)
    ELSE IF layer = "_get_inside_info" THEN fetch_page(answer)
    ELSE PipelineAttempt(answer)

\* faulty variant of _is_retryable_exception: every HTTPStatusError is retried
_is_retryable_exception_any_status(exception) ==
    IF exception.type = "none" THEN FALSE
    ELSE IF exception.type = "QueueLimitExceededError" THEN TRUE
    ELSE IF IsRequestError(exception) THEN exception.type # "TimeoutException"
    ELSE exception.type = "HTTPStatusError"

_is_retryable_exception(exception) ==
    IF exception.type = "none" THEN FALSE
    ELSE IF exception.type = "QueueLimitExceededError" THEN TRUE
    ELSE IF IsRequestError(exception) THEN exception.type # "TimeoutException"
    ELSE IF exception.type = "HTTPStatusError"
    THEN 500 <= exception.status /\ exception.status < 600
    ELSE FALSE

is_retryable_http_error(exception) ==
    IF exception.type = "ConnectionError" THEN TRUE
    ELSE IF IsRequestError(exception) THEN TRUE
    ELSE IF exception.type = "HTTPStatusError"
    THEN exception.status >= 500 \/ exception.status = 429
    ELSE FALSE

\* retry_if_exception_type((ConnectionError, httpx.RequestError,
\* httpx.HTTPStatusError))
WorkerRetries(exception) ==
    \/ exception.type \in {"ConnectionError", "HTTPStatusError"}
    \/ IsRequestError(exception)

RetryOn(layer, exception) ==
    IF layer = "_make_request" THEN _is_retryable_exception(exception)
    ELSE IF layer = "_get_inside_info" THEN is_retryable_http_error(exception)
    ELSE WorkerRetries(exception)

\* stop_after_attempt(n) of the layer
stop_after_attempt(layer) == IF layer = "_make_request" THEN 6 ELSE 4

\* reraise=True is set for the retryer of _get_inside_info only
Reraise(layer) == layer = "_get_inside_info"

\* how a retry loop stands: no outcome yet, or what it gave its caller
NoOutcome == [exc |-> NoExc, note |-> "none"]

InitRetry ==
    /\ run \in {[of |-> "retry", layer |-> l, attempt_number |-> 1,
                  mpc |-> "attempt", seen |-> <<>>, outcome |-> NoOutcome] :
                 l \in Layers}
    /\ fargs = NoCall /\ fret = NoCall
    /\ cin = <<>> /\ cout = NotRun /\ cout2 = NotRun
    /\ IdleBatcher

\* the wrapped function returns: the loop returns its result
AttemptReturns ==
    /\ run.of = "retry" /\ run.mpc = "attempt"
    /\ \E answer \in Answers :
         \E o \in {AttemptOf(run.layer, answer)} :
             /\ o.raised = NoExc
             /\ run' = [run EXCEPT !.mpc = "returned",
                            !.seen = Append(@, [answer |-> answer, raised |-> NoExc]),
                            !.outcome = [exc |-> NoExc, note |-> o.note]]
    /\ UNCHANGED <<fargs, fret, cin, cout, cout2>>
    /\ UNCHANGED batcherVars

\* the wrapped function raises: the exception leaves the loop when the retry
\* predicate rejects it, RetryError (the exception itself with reraise) leaves
\* it when the stop condition holds, else the loop sleeps
AttemptRaises ==
    /\ run.of = "retry" /\ run.mpc = "attempt"
    /\ \E answer \in Answers :
         \E o \in {AttemptOf(run.layer, answer)} :
         LET seen == Append(run.seen, [answer |-> answer, raised |-> o.raised])
         IN  /\ o.raised # NoExc
             /\ run' =
                  IF ~RetryOn(run.layer, o.raised)
                  THEN [run EXCEPT !.mpc = "raised", !.seen = seen,
                            !.outcome = [exc |-> o.raised, note |-> "none"]]
                  ELSE IF run.attempt_number >= stop_after_attempt(run.layer)
                  THEN [run EXCEPT !.mpc = "raised", !.seen = seen,
                            !.outcome = [exc |-> IF Reraise(run.layer) THEN o.raised
                                                 ELSE Exc("RetryError", 0),
                                         note |-> "none"]]
                  ELSE [run EXCEPT !.mpc = "sleep", !.seen = seen]
    /\ UNCHANGED <<fargs, fret, cin, cout, cout2>>
    /\ UNCHANGED batcherVars

\* the wait of wait_exponential is over: the next attempt
BackoffEnds ==
    /\ run.of = "retry" /\ run.mpc = "sleep"
    /\ run' = [run EXCEPT !.mpc = "attempt", !.attempt_number = @ + 1]
    /\ UNCHANGED <<fargs, fret, cin, cout, cout2>>
    /\ UNCHANGED batcherVars

\* the except clauses of _get_inside_info: an InsideInfo with price -1.0
InsideInfoFailed ==
    /\ run.of = "retry" /\ run.mpc = "raised" /\ run.layer = "_get_inside_info"
    /\ run' = [run EXCEPT !.mpc = "caught",
                   !.outcome = [exc |-> NoExc,
                                note |-> IF run.outcome.exc.type = "RetryError"
                                         THEN "Unknown (Retry Failed)"
                                         ELSE "Unknown (Parse Error)"]]
    /\ UNCHANGED <<fargs, fret, cin, cout, cout2>>
    /\ UNCHANGED batcherVars

NextRetry == AttemptReturns \/ AttemptRaises \/ BackoffEnds \/ InsideInfoFailed

SpecRetry == InitRetry /\ [][NextRetry]_vars

----------------------------------------------------------------------------
(* the retry claims *)

\* the retry loop has given its caller a result or an exception
Terminated == run.of = "retry" /\ run.mpc \in {"returned", "raised", "caught"}

\* the pricing API's queue-limit signal
QueueSignal(answer) ==
    answer.kind = "status" /\ answer.status = 400 /\ answer.queue_text

\* the classification of the retry policy
RetryableFailure(answer) ==
    \/ answer.kind \in {"timeout", "connect"}
    \/ answer.kind = "status" /\ 500 <= answer.status /\ answer.status < 600
    \/ QueueSignal(answer)

FatalFailure(answer) ==
    \/ answer.kind = "other"
    \/ /\ answer.kind = "status" /\ 400 <= answer.status /\ answer.status < 500
       /\ ~QueueSignal(answer)

\* attempt i of the loop was followed by the wait before another attempt
Reattempted(i) ==
    i < Len(run.seen) \/ (i = Len(run.seen) /\ run.mpc \in {"sleep", "attempt"})

\* C27: a row whose pipeline ended on a retryable failure (connectivity
\* failure, timeout, HTTP 5xx, queue-limit signal) was attempted
\* stop_after_attempt = 4 times before the failure was reported
C27_PipelineRetriedToCap ==
    (/\ Terminated /\ run.layer = "process_payload_worker"
     /\ RetryableFailure(run.seen[Len(run.seen)].answer))
    => Len(run.seen) = stop_after_attempt("process_payload_worker")

\* C28 as stated: in every retry layer no attempt that ended on a fatal
\* failure (validation error, HTTP 4xx other than the queue-limit signal) is
\* followed by another attempt
C28_FatalNeverRetried ==
    run.of = "retry" =>
        \A i \in 1..Len(run.seen) :
            FatalFailure(run.seen[i].answer) => ~Reattempted(i)

\* HTTP 429 answered by a competitor detail page
DetailPage429(i) ==
    /\ run.layer = "_get_inside_info"
    /\ run.seen[i].answer.kind = "status" /\ run.seen[i].answer.status = 429

\* C28: in every retry layer no attempt that ended on a fatal failure is
\* followed by another attempt, except HTTP 429 from a competitor detail
\* page, which is re-attempted like a server error until the attempt cap
C28_FatalNeverRetriedBut429 ==
    run.of = "retry" =>
        \A i \in 1..Len(run.seen) :
            /\ (FatalFailure(run.seen[i].answer) /\ ~DetailPage429(i))
                   => ~Reattempted(i)
            /\ (DetailPage429(i) /\ i < stop_after_attempt(run.layer))
                   => Reattempted(i)

C28_Witness ==
    /\ run.of = "retry" /\ run.mpc = "raised" /\ run.layer = "_make_request"
    /\ Len(run.seen) = 1 /\ run.seen[1].answer = Answer("status", 429, FALSE)
    /\ run.outcome.exc = Exc("HTTPStatusError", 429)

\* C29: a request to the pricing API or to a competitor page that ended on a
\* timeout was attempted as often as the layer's attempt cap allows
C29_TimeoutRetriedToCap ==
    (/\ Terminated /\ run.layer \in {"_make_request", "_get_inside_info"}
     /\ run.seen[Len(run.seen)].answer.kind = "timeout")
    => Len(run.seen) = stop_after_attempt(run.layer)

\* C30: in _make_request the queue-limit signal raises QueueLimitExceededError
\* (every other error answer its HTTPStatusError), the attempt is followed by
\* another one while fewer than 6 were made, a request has at most 6
\* attempts, and the 6th failing attempt ends the request with an exception
\* to the caller
C30_QueueLimitRetriedBounded ==
    (run.of = "retry" /\ run.layer = "_make_request") =>
        /\ Len(run.seen) <= 6 /\ run.attempt_number <= 6
        /\ \A i \in 1..Len(run.seen) :
             /\ QueueSignal(run.seen[i].answer)
                    <=> run.seen[i].raised.type = "QueueLimitExceededError"
             /\ (QueueSignal(run.seen[i].answer) /\ i < 6) => Reattempted(i)
        /\ (Len(run.seen) = 6 /\ run.seen[6].raised # NoExc)
               => (run.mpc = "raised" /\ run.outcome.exc # NoExc)

C30_Witness ==
    /\ run.of = "retry" /\ run.layer = "_make_request" /\ run.mpc = "raised"
    /\ Len(run.seen) = 6
    /\ \A i \in 1..6 : QueueSignal(run.seen[i].answer)
    /\ run.outcome.exc = Exc("RetryError", 0)

----------------------------------------------------------------------------
(* shutdown, failures of rows and of the bulk fetch *)

\* C31: once shutdown is requested, the tasks of the chunk in flight finish,
\* its logs are written back, and no further chunk is started
C31_ShutdownFinishesChunk ==
    run.of = "run_automation" =>
        \A p \in 1..Len(run.trace) :
            run.trace[p].e = "shutdown" =>
                /\ \A r \in run.trace[p].unfinished : run.st[r] # "cancelled"
                /\ (run.trace[p].unfinished # {} /\ run.mpc \in {"cancelled", "done"})
                       => Positions26("write", run.trace[p].chunk) # {}
                /\ \A q \in 1..Len(run.trace) :
                       run.trace[q].e = "start" => q < p

\* C33: a failing row leaves the chunk and the run alone: no task is
\* cancelled or abandoned while the run goes on, every task of a started
\* chunk leaves a log record, and once the chunk is over the one writeback of
\* the chunk holds exactly one record for each of its rows, failed or not
C33_RowFailureIsolated ==
    run.of = "run_automation" =>
        \A k \in 1..Len(PayloadChunks) :
            /\ \A r \in RowsOf(k) :
                 /\ run.st[r] # "silent"
                 /\ run.st[r] = "cancelled" => run.mpc = "cancelled"
            /\ \A p \in Positions26("write", k) : \A r \in RowsOf(k) :
                 Cardinality({j \in 1..Len(run.trace[p].rows) :
                                 run.trace[p].rows[j] = r}) = 1
            /\ (Started(k) /\ (k < run.i \/ run.mpc \in {"sleep", "closing", "done"}))
                   => Positions26("write", k) # {}

\* a row of the first chunk failed, the others handed on an update, the
\* logs of all of them were written and the second chunk is running
C33_Witness ==
    /\ run.of = "run_automation" /\ run.mpc = "gather" /\ run.i = 2
    /\ Cardinality({r \in RowsOf(1) : run.st[r] = "failed"}) = 1
    /\ Cardinality({r \in RowsOf(1) : run.st[r] = "ok"}) = ChunkSize - 1
    /\ \E p \in Positions26("write", 1) : run.trace[p].rows = PayloadChunks[1]
    /\ \E r \in RowsOf(2) : run.st[r] = "running"

\* the call returned an update
PreparedUpdate == fret # NoCall /\ fret.fn = "prepare_price_update" /\ ~fret.raised

\* the product's own price the flag is computed from: the base price of the
\* description for a row without variant, payload.current_price otherwise
OwnPrice ==
    IF IsNone(fargs.product_variant_id) THEN Val(fargs.result).base_price
    ELSE fargs.current_price

\* C34: the update's ignore flag is set exactly when the row is in compare2
\* mode and the own price is known and below the known target price; and a
\* flush whose snapshot ends with such an update submits what it would
\* submit for the rest of the snapshot alone
C34_IgnoreFlag ==
    PreparedUpdate =>
        LET u == Val(fret.update)
        IN  /\ u.is_ignore <=>
                  /\ fargs.compare2
                  /\ ~IsNone(OwnPrice) /\ ~IsNone(fargs.target_price)
                  /\ Val(OwnPrice) < Val(fargs.target_price)
            /\ (u.is_ignore /\ cout.done) =>
                  /\ cin[Len(cin)] = u
                  /\ cout.raised = consolidate_price_updates(
                                       SubSeq(cin, 1, Len(cin) - 1)).raised
                  /\ cout.out = consolidate_price_updates(
                                    SubSeq(cin, 1, Len(cin) - 1)).out
                  /\ \A i \in 1..Len(cout.out) : ~cout.out[i].is_ignore

\* an ignored update of product 1 was flushed together with a pending update
\* of the same product, and only the pending one was submitted
C34_Witness ==
    /\ PreparedUpdate /\ Val(fret.update).is_ignore /\ cout.done
    /\ Len(cin) = 2 /\ cin[1].product_id = Val(fret.update).product_id
    /\ Len(cout.out) = 1

\* C40: a chunk whose bulk fetch failed starts no task, has no log
\* writeback and no pause, all its rows are left out, the run goes on with
\* the next chunk (it is neither aborted nor ended early), and the chunks
\* after it are taken in order
C40_FailedFetchSkipsChunk ==
    run.of = "run_automation" =>
        \A p \in 1..Len(run.trace) :
            run.trace[p].e = "skip" =>
                LET k == run.trace[p].chunk
                IN  /\ Positions26("start", k) \cup Positions26("write", k)
                           \cup Positions26("sleep", k) = {}
                    /\ Positions26("skip", k) = {p}
                    /\ \A r \in RowsOf(k) : run.st[r] = "skipped"
                    /\ p < Len(run.trace) => run.trace[p + 1].chunk = k + 1
                    /\ p = Len(run.trace) =>
                           \/ run.mpc = "fetch" /\ run.i = k + 1
                           \/ k = Len(PayloadChunks) /\ run.mpc \in {"closing", "done"}
                    /\ (k < Len(PayloadChunks) /\ run.mpc \in {"closing", "done"})
                           => \E q \in (p + 1)..Len(run.trace) :
                                  run.trace[q].chunk = k + 1

\* the fetch of the first chunk failed, the second chunk ran and its logs
\* were written
C40_Witness ==
    /\ run.of = "run_automation" /\ run.mpc = "done"
    /\ Len(run.trace) = 3
    /\ run.trace[1].e = "skip" /\ run.trace[1].chunk = 1
    /\ run.trace[2].e = "start" /\ run.trace[2].chunk = 2
    /\ run.trace[3].e = "write" /\ run.trace[3].chunk = 2

----------------------------------------------------------------------------
(* the batcher under concurrent adds *)

\* the snapshots of the flushes whose submission is awaited, as one bag
RECURSIVE SnapshotsOf(_)
SnapshotsOf(ts) ==
    IF ts = {} THEN EmptyBag
    ELSE LET t == CHOOSE x \in ts : TRUE
         IN  SeqToBag(inflight[t].snapshot) (+) SnapshotsOf(ts \ {t})

\* C35: every update added and not yet part of a returned submission is
\* either pending or in the snapshot of a flush in flight, once: an update
\* added while a submission is awaited stays pending, outside that
\* submission, and is still there when the submission ends
C35_AddedUpdatesAccounted ==
    owed = SeqToBag(batch) (+) SnapshotsOf(Tasks)

\* C36: a submission that is awaited carries at least one record
C36_NoEmptySubmission ==
    \A t \in Tasks : pc[t] = "submitting" => inflight[t].to_send # <<>>

\* C37: the snapshot of a flush holds at most batch_size raw updates, and
\* pending never holds more than batch_size
C37_SnapshotWithinThreshold ==
    /\ Len(batch) <= batch_size
    /\ \A t \in Tasks : Len(inflight[t].snapshot) <= batch_size

----------------------------------------------------------------------------
(* the price a consolidated variant stands for *)

\* base price plus the magnitude for an increase, minus it for a decrease
EffectivePrice(u, v) ==
    IF v.type = "priceplus" THEN Val(u.price) + v.rate ELSE Val(u.price) - v.rate

PrecisionOf(v) == IF IsNone(v.price_rounding) THEN 0 ELSE Val(v.price_rounding)

----------------------------------------------------------------------------
(* what a row hands to the batcher *)

\* the row's worker has returned
RowDone == fret # NoCall /\ fret.fn = "process_payload_worker"

\* the final price an update was prepared from: the price of an update
\* without variant, the target price of the variant otherwise (the sample
\* descriptions have one unit per price)
HandedPrice(u) ==
    IF IsNone(u.variants) THEN Val(u.price)
    ELSE Val(Val(u.variants)[1].target_price)

\* C39: the worker always returns a log record; it hands an update to the
\* batcher only for a row that has a minimum price and whose final price is
\* not below it, and hands on nothing when the row has no minimum price, its
\* final price is below the minimum, or the row failed
C39_UpdateOnlyAboveMin ==
    RowDone =>
        /\ ~IsNone(fret.log_data)
        /\ ~IsNone(fret.added) =>
              /\ fargs.payload.is_have_min_price
              /\ ~IsNone(fargs.payload.min_price)
              /\ HandedPrice(Val(fret.added)) >= Val(fargs.payload.min_price)
              /\ Val(fret.log_data).note \in {"compare", "compare2", "not_compare"}
        /\ (\/ ~fargs.payload.is_have_min_price
            \/ Val(fret.log_data).note \in {"no_min_price", "below_min",
                                            "error", "severe"})
              => IsNone(fret.added)

\* an update whose final price equals the minimum price was handed on
C39_Witness ==
    /\ RowDone /\ ~IsNone(fret.added)
    /\ HandedPrice(Val(fret.added)) = Val(fargs.payload.min_price)

----------------------------------------------------------------------------
(* DigisellerClient._get_valid_token with concurrent callers *)

MaxCallers == 3

Callers == 1..MaxCallers

\* self._token and self._token_valid_thru and
\* self._token_valid_thru > now + 1 minute
TokenValid(token, valid) == ~IsNone(token) /\ valid

\* faulty variant of StillValid: no second test under the lock
StillValidNever(token, valid) == FALSE

\* the same test again, inside "async with self._auth_lock"
StillValid(token, valid) == TokenValid(token, valid)

\* the client at the first call: no token, a token about to expire, or a
\* valid one (token 0; the k-th authentication gives token k)
InitToken ==
    /\ run \in {[of |-> "token", token |-> t[1], valid |-> t[2],
                  holder |-> 0, waiters |-> <<>>,
                  pc |-> [c \in Callers |-> "idle"],
                  ret |-> [c \in Callers |-> None],
                  found |-> [c \in Callers |-> "none"],
                  locked |-> [c \in Callers |-> FALSE],
                  auths |-> 0, failed |-> FALSE] :
                 t \in {<<None, FALSE>>, <<Some(0), FALSE>>, <<Some(0), TRUE>>}}
    /\ fargs = NoCall /\ fret = NoCall
    /\ cin = <<>> /\ cout = NotRun /\ cout2 = NotRun
    /\ IdleBatcher

\* caller c holds the lock and has passed the first test: the second test,
\* then "return self._token" and the release, or the start of _authenticate
UnderLock(c, r) ==
    IF StillValid(r.token, r.valid)
    THEN [r EXCEPT !.pc[c] = "returned", !.ret[c] = r.token, !.holder = 0]
    ELSE [r EXCEPT !.pc[c] = "auth", !.holder = c, !.auths = @ + 1]

\* a call of _get_valid_token up to its first suspension: the first test; if
\* it fails the lock is taken at once when it is free and nobody waits, else
\* the caller queues
GetValidToken(c) ==
    /\ run.of = "token" /\ run.pc[c] = "idle"
    /\ run' =
         IF TokenValid(run.token, run.valid)
         THEN [run EXCEPT !.pc[c] = "returned", !.ret[c] = run.token,
                          !.found[c] = "valid"]
         ELSE IF run.holder = 0 /\ run.waiters = <<>>
         THEN UnderLock(c, [run EXCEPT !.found[c] = "invalid", !.locked[c] = TRUE])
         ELSE [run EXCEPT !.pc[c] = "waiting", !.found[c] = "invalid",
                          !.locked[c] = TRUE, !.waiters = Append(@, c)]
    /\ UNCHANGED <<fargs, fret, cin, cout, cout2>>
    /\ UNCHANGED batcherVars

\* the lock was released and the first waiter runs again with the lock
LockGranted(c) ==
    /\ run.of = "token" /\ run.pc[c] = "waiting"
    /\ run.holder = 0 /\ run.waiters # <<>> /\ Head(run.waiters) = c
    /\ run' = UnderLock(c, [run EXCEPT !.waiters = Tail(@)])
    /\ UNCHANGED <<fargs, fret, cin, cout, cout2>>
    /\ UNCHANGED batcherVars

\* _authenticate got its answer: the token and its validity are stored, the
\* caller returns self._token and leaves the lock
AuthenticateReturns(c) ==
    /\ run.of = "token" /\ run.pc[c] = "auth"
    /\ run' = [run EXCEPT !.token = Some(run.auths), !.valid = TRUE,
                          !.pc[c] = "returned", !.ret[c] = Some(run.auths),
                          !.holder = 0]
    /\ UNCHANGED <<fargs, fret, cin, cout, cout2>>
    /\ UNCHANGED batcherVars

\* the request of _authenticate raised (after the retries of _make_request):
\* the exception leaves the lock and goes to the caller
AuthenticateRaises(c) ==
    /\ run.of = "token" /\ run.pc[c] = "auth"
    /\ run' = [run EXCEPT !.pc[c] = "raised", !.holder = 0, !.failed = TRUE]
    /\ UNCHANGED <<fargs, fret, cin, cout, cout2>>
    /\ UNCHANGED batcherVars

NextToken ==
    \E c \in Callers :
        \/ GetValidToken(c) \/ LockGranted(c)
        \/ AuthenticateReturns(c) \/ AuthenticateRaises(c)

SpecToken == InitToken /\ [][NextToken]_vars

\* the callers whose first test found the token missing or expiring
FoundInvalid == {c \in Callers : run.found[c] = "invalid"}

====
